---------------------------- MODULE Spec2Model ----------------------------
(***************************************************************************)
(* Maintenance dashboard (maintenance_app): the record store reached        *)
(* through the DAO classes of data_access.py and the analytics of           *)
(* MaintenanceService (business_logic.py).                                  *)
(*                                                                         *)
(* Conventions                                                             *)
(*   - a table is the sequence of its rows in rowid order;                 *)
(*   - a stored date string 'YYYY-MM-DD' is the tuple <<y, m, d>> of its   *)
(*     three fields; strptime turns it into a proleptic Gregorian ordinal  *)
(*     (or fails);                                                         *)
(*   - money is a whole number of euros;                                   *)
(*   - a value rounded to k decimals is the integer number of 10^-k units; *)
(*   - res is the value returned by the most recent call.                  *)
(***************************************************************************)
EXTENDS Integers, Sequences, FiniteSets

VARIABLES
    equipements,      \* table equipements
    techniciens,      \* table techniciens
    interventions,    \* table interventions
    pieces,           \* table pieces_detachees
    pieces_utilisees, \* table pieces_utilisees
    utilisateurs,     \* table utilisateurs
    app,              \* the window: [demarree, current_user, menu]
    index_date,       \* whether the schema indexes interventions.date_intervention
    now,              \* the clock read by datetime.now(): [jour, secondes]
    res               \* value returned by the most recent call

vars == <<equipements, techniciens, interventions, pieces, pieces_utilisees, utilisateurs, app,
          index_date, now, res>>
store == <<equipements, techniciens, interventions, pieces>>

----------------------------------------------------------------------------
(* Bounds of the model *)

MaxEquip == 2
MaxInter == 3
MaxTicks == 1
MaxUsages == 2

----------------------------------------------------------------------------
(* Generic helpers *)

Range(s) == {s[i] : i \in DOMAIN s}

Min(a, b) == IF a <= b THEN a ELSE b
Max(a, b) == IF a >= b THEN a ELSE b

SetMax(S) == CHOOSE x \in S : \A y \in S : y <= x
SetMin(S) == CHOOSE x \in S : \A y \in S : x <= y

RECURSIVE SumSeq(_)
SumSeq(s) == IF s = <<>> THEN 0 ELSE Head(s) + SumSeq(Tail(s))

\* Stable insertion of index i into the index sequence p, sorted by keys
\* ascending: i goes after every index whose key is not greater.
RECURSIVE InsertIdx(_, _, _)
InsertIdx(p, i, keys) ==
    IF p = <<>> THEN <<i>>
    ELSE IF keys[i] < keys[Head(p)] THEN <<i>> \o p
    ELSE <<Head(p)>> \o InsertIdx(Tail(p), i, keys)

\* The indices 1..n ordered by keys ascending, equal keys in index order
\* (a stable sort, as list.sort and sorted are).
RECURSIVE SortIdx(_, _)
SortIdx(n, keys) ==
    IF n = 0 THEN <<>> ELSE InsertIdx(SortIdx(n - 1, keys), n, keys)

\* s stably sorted by the integer keys keys[i] of its elements s[i]
SortedBy(s, keys) ==
    LET p == SortIdx(Len(s), keys) IN [i \in 1..Len(s) |-> s[p[i]]]

\* Python round(num/den, k) as an integer number of 10^-k units, given
\* scale = 10^k, num >= 0, den > 0: nearest, ties to even.
RoundHalfEven(num, den, scale) ==
    LET q == (num * scale) \div den
        r == (num * scale) % den
    IN  IF 2 * r < den THEN q
        ELSE IF 2 * r > den THEN q + 1
        ELSE IF q % 2 = 0 THEN q ELSE q + 1

----------------------------------------------------------------------------
(* Dates: datetime.strptime(s, '%Y-%m-%d'), date.toordinal, timedelta.days *)

IsLeap(y) == (y % 4 = 0) /\ ((y % 100 # 0) \/ (y % 400 = 0))

DaysInMonth(y, m) ==
    IF m = 2 THEN (IF IsLeap(y) THEN 29 ELSE 28)
    ELSE IF m \in {4, 6, 9, 11} THEN 30 ELSE 31

DaysBeforeYear(y) ==
    LET p == y - 1 IN p * 365 + (p \div 4) - (p \div 100) + (p \div 400)

RECURSIVE DaysBeforeMonth(_, _)
DaysBeforeMonth(y, m) ==
    IF m = 1 THEN 0 ELSE DaysBeforeMonth(y, m - 1) + DaysInMonth(y, m - 1)

\* strptime raises ValueError on a string that is no calendar date
DateValide(s) ==
    /\ s[1] \in 1..9999
    /\ s[2] \in 1..12
    /\ s[3] \in 1..DaysInMonth(s[1], s[2])

\* the ordinal of the datetime strptime returns (its time of day is 00:00:00)
strptime(s) == DaysBeforeYear(s[1]) + DaysBeforeMonth(s[1], s[2]) + s[3]

SecondesParJour == 86400

\* (a - b).days for two datetimes given as [jour, secondes]: timedelta
\* normalises to 0 <= seconds < 86400, so days is the floor.
TimedeltaDays(a, b) ==
    ((a.jour - b.jour) * SecondesParJour + (a.secondes - b.secondes)) \div SecondesParJour

\* the datetime strptime returns for a valid date string
Minuit(s) == [jour |-> strptime(s), secondes |-> 0]

\* sort key of a zero-padded date string: the text column orders as this number
DateTexteCle(s) == s[1] * 10000 + s[2] * 100 + s[3]


----------------------------------------------------------------------------
(* Python dict as a function with a finite domain *)

EmptyDict == <<>>

\* d with d[k] = v (the key added when new)
DictSet(d, k, v) == [x \in (DOMAIN d) \cup {k} |-> IF x = k THEN v ELSE d[x]]

\* d.get(k, dflt), and d[k] of a defaultdict whose factory gives dflt
DictGet(d, k, dflt) == IF k \in DOMAIN d THEN d[k] ELSE dflt

RECURSIVE SumSet(_, _)
\* sum of f[x] over the finite set S
SumSet(S, f) ==
    IF S = {} THEN 0
    ELSE LET x == CHOOSE y \in S : TRUE IN f[x] + SumSet(S \ {x}, f)

----------------------------------------------------------------------------
(* The value a call returns: op names the operation, arg its arguments,
   horloge the values datetime.now() gave the call, in order, exc the
   exception it raised ("" when it returned), val the returned value. *)

RetourLu(op, arg, lus, val) == [op |-> op, arg |-> arg, horloge |-> lus, exc |-> "", val |-> val]
EchecLu(op, arg, lus, exc) == [op |-> op, arg |-> arg, horloge |-> lus, exc |-> exc, val |-> <<>>]
RetourDe(op, arg, val) == RetourLu(op, arg, <<>>, val)
EchecDe(op, arg, exc) == EchecLu(op, arg, <<>>, exc)
Retour(op, val) == RetourDe(op, <<>>, val)
Echec(op, exc) == EchecDe(op, <<>>, exc)

----------------------------------------------------------------------------
(* data_access.py: queries *)

\* collation order of the equipment names used in the model
NomsOrdre == <<"Compresseur", "Presse", "Tour">>
NomRang(n) == CHOOSE i \in DOMAIN NomsOrdre : NomsOrdre[i] = n

\* SELECT * FROM equipements ORDER BY nom (equal names in rowid order)
EquipementDAO_get_all ==
    SortedBy(equipements, [i \in DOMAIN equipements |-> NomRang(equipements[i].nom)])

\* SELECT * FROM equipements WHERE id = ?  (<<>> when there is no such row)
EquipementDAO_get_by_id(equipement_id) ==
    SelectSeq(equipements, LAMBDA e : e.id = equipement_id)

\* UPDATE equipements SET statut = ? WHERE id = ?
EquipementDAO_update_statut(equipement_id, nouveau_statut) ==
    /\ equipements' = [i \in DOMAIN equipements |->
                         IF equipements[i].id = equipement_id
                         THEN [equipements[i] EXCEPT !.statut = nouveau_statut]
                         ELSE equipements[i]]
    /\ res' = Retour("EquipementDAO.update_statut", <<>>)
    /\ UNCHANGED <<techniciens, interventions, pieces, pieces_utilisees, utilisateurs, app, index_date, now>>

----------------------------------------------------------------------------
(* business_logic.py: availability rate per equipment type *)

\* one turn of the counting loop: mutant that counts every equipment as active
CompterEquipement_sans_statut(stats, eq) ==
    LET cur == DictGet(stats, eq.type, [total |-> 0, actifs |-> 0])
    IN  DictSet(stats, eq.type, [total |-> cur.total + 1, actifs |-> cur.actifs + 1])

\* one turn of the counting loop (lines 79-83)
CompterEquipement(stats, eq) ==
    LET cur == DictGet(stats, eq.type, [total |-> 0, actifs |-> 0])
    IN  DictSet(stats, eq.type,
                [total  |-> cur.total + 1,
                 actifs |-> IF eq.statut = "actif" THEN cur.actifs + 1 ELSE cur.actifs])

RECURSIVE stats_par_type(_)
\* the defaultdict after the loop over the equipment list eqs
stats_par_type(eqs) ==
    IF eqs = <<>> THEN EmptyDict
    ELSE CompterEquipement(stats_par_type(SubSeq(eqs, 1, Len(eqs) - 1)), eqs[Len(eqs)])

\* {type: rate}, the rate in hundredths of a percent (round(..., 2))
calculer_taux_disponibilite_equipements ==
    LET eqs   == EquipementDAO_get_all
        stats == stats_par_type(eqs)
    IN  IF eqs = <<>> THEN EmptyDict
        ELSE [t \in {k \in DOMAIN stats : stats[k].total > 0} |->
                 RoundHalfEven(stats[t].actifs * 100, stats[t].total, 100)]

Appel_calculer_taux_disponibilite_equipements ==
    /\ res' = Retour("calculer_taux_disponibilite_equipements",
                     calculer_taux_disponibilite_equipements)
    /\ UNCHANGED <<equipements, techniciens, interventions, pieces, pieces_utilisees, utilisateurs, app, index_date, now>>

----------------------------------------------------------------------------
(* business_logic.py and gui.py: the login and the sidebar.  A fetched row
   is <<>> for None, else <<row>>.  app is the window: demarree once
   MaintenanceApp.__init__ has run, current_user its attribute, menu the
   labels of the sidebar buttons in order (<<>> when no widget exists). *)

\* SELECT * FROM utilisateurs WHERE username = ?, fetchone
UserDAO_get_by_username(username) ==
    LET rows == SelectSeq(utilisateurs, LAMBDA u : u.username = username)
    IN  IF rows = <<>> THEN <<>> ELSE <<rows[1]>>

\* login ignoring the password
AuthService_login_sans_mot_de_passe(username, password) ==
    UserDAO_get_by_username(username)

AuthService_login(username, password) ==
    LET user == UserDAO_get_by_username(username)
    IN  IF user # <<>> /\ user[1].password_hash = password THEN user ELSE <<>>

menu_items ==
    <<"Indicateurs globaux", "Equipements sollicites", "Frequence par type",
      "Cout par equipement", "Taux disponibilite", "Indice fiabilite",
      "Tendance des couts", "Alertes maintenance", "Interventions/mois",
      "Ajouter Intervention", "Performance techniciens", "Historique equipement",
      "Recherche avancee", "Analyses Avancees KPI", "Gestion Stocks",
      "Rapport complet">>

items_to_remove ==
    {"Cout par equipement", "Tendance des couts", "Performance techniciens",
     "Rapport complet"}

\* the sidebar, were the role never looked at
create_sidebar_sans_filtre(current_user) ==
    menu_items

\* _create_sidebar: the labels of the buttons it creates for current_user
create_sidebar(current_user) ==
    IF current_user.role = "technicien"
    THEN SelectSeq(menu_items, LAMBDA item : item \notin items_to_remove)
    ELSE menu_items

AppNonDemarree == [demarree |-> FALSE, current_user |-> <<>>, menu |-> <<>>]

\* the window after __init__ when the dialog gave result
AppApres(result) ==
    [demarree |-> TRUE, current_user |-> result,
     menu |-> IF result = <<>> THEN <<>> ELSE create_sidebar(result[1])]

\* the store holds one administrator, who is logged in
UtilisateursDepart ==
    <<[id |-> 1, username |-> "admin", password_hash |-> "admin123", role |-> "admin"]>>
SessionDepart == AppApres(<<UtilisateursDepart[1]>>)

----------------------------------------------------------------------------
(* Input sets *)

Types == {"Machine", "Vehicule", "Outillage"}
Statuts == {"actif", "en_panne", "hors_service"}

\* the clock at the start: 2025-06-15 12:00:00
DateDepart == <<2025, 6, 15>>
Now0 == [jour |-> strptime(DateDepart), secondes |-> 43200]

\* the equipment tables of n rows with fields drawn from the given sets
TablesEquipements(n, noms, types, statuts, acquisitions, heures) ==
    LET Champs == [nom : noms, type : types, statut : statuts,
                   date_acquisition : acquisitions, heures_utilisation : heures]
    IN  {[i \in 1..n |-> [id |-> i, nom |-> f[i].nom, type |-> f[i].type,
                          statut |-> f[i].statut,
                          date_acquisition |-> f[i].date_acquisition,
                          heures_utilisation |-> f[i].heures_utilisation]]
           : f \in [1..n -> Champs]}

TechniciensDepart == <<[id |-> 1, nom |-> "Martin", prenom |-> "Luc"]>>
PiecesDepart == <<[id |-> 1, nom |-> "Courroie", quantite_stock |-> 2, seuil_alerte |-> 1]>>
ResDepart == Retour("", <<>>)

----------------------------------------------------------------------------
(* SpecDispo: any fleet of at most MaxEquip equipment, statuses updated,
   availability computed *)

InitDispo ==
    /\ equipements \in UNION {TablesEquipements(n, {"Presse"}, Types, Statuts,
                                                {<<2020, 1, 1>>}, {0})
                                : n \in 0..MaxEquip}
    /\ techniciens = TechniciensDepart
    /\ interventions = <<>>
    /\ pieces = PiecesDepart
    /\ pieces_utilisees = <<>>
    /\ utilisateurs = UtilisateursDepart
    /\ app = SessionDepart
    /\ index_date = FALSE
    /\ now = Now0
    /\ res = ResDepart

NextDispo ==
    \/ \E i \in DOMAIN equipements, st \in Statuts :
          EquipementDAO_update_statut(equipements[i].id, st)
    \/ Appel_calculer_taux_disponibilite_equipements

SpecDispo == InitDispo /\ [][NextDispo]_vars

----------------------------------------------------------------------------
(* C1 *)

NbDeType(t) == Cardinality({i \in DOMAIN equipements : equipements[i].type = t})
NbActifsDeType(t) ==
    Cardinality({i \in DOMAIN equipements :
                    equipements[i].type = t /\ equipements[i].statut = "actif"})
Abs(x) == IF x < 0 THEN -x ELSE x

\* C1: the availability mapping has exactly the types that have equipment as
\* keys (none when there is no equipment); each rate is active/total*100 of
\* its type to the nearest hundredth and lies in [0, 100]; and the per-type
\* active counts add up to the number of equipment whose status is 'actif'.
C1_Taux ==
    LET stats == stats_par_type(EquipementDAO_get_all) IN
    /\ SumSet(DOMAIN stats, [t \in DOMAIN stats |-> stats[t].actifs])
         = Cardinality({i \in DOMAIN equipements : equipements[i].statut = "actif"})
    /\ res.op = "calculer_taux_disponibilite_equipements" =>
         /\ res.exc = ""
         /\ DOMAIN res.val = {equipements[i].type : i \in DOMAIN equipements}
         /\ \A t \in DOMAIN res.val :
              /\ NbDeType(t) > 0
              /\ res.val[t] \in 0..10000
              /\ 2 * Abs(res.val[t] * NbDeType(t) - 10000 * NbActifsDeType(t)) <= NbDeType(t)

\* a type with two equipment, one of them active, was rated 50.00
C1_Witness ==
    /\ res.op = "calculer_taux_disponibilite_equipements"
    /\ \E t \in DOMAIN res.val : NbDeType(t) = 2 /\ res.val[t] = 5000

\* the empty store was rated: the result is the empty mapping
C1_WitnessVide ==
    /\ res.op = "calculer_taux_disponibilite_equipements"
    /\ equipements = <<>>
    /\ res.val = EmptyDict

----------------------------------------------------------------------------
(* data_access.py: interventions *)

\* rows of interventions joined with their equipment (INNER JOIN equipements e
\* ON i.equipement_id = e.id), in rowid order
JoinEquipement(inters) ==
    LET ok == SelectSeq(inters,
                        LAMBDA i : \E k \in DOMAIN equipements :
                                       equipements[k].id = i.equipement_id)
        eqDe(i) == equipements[CHOOSE k \in DOMAIN equipements :
                                   equipements[k].id = i.equipement_id]
    IN  [n \in DOMAIN ok |->
           [id |-> ok[n].id, equipement_id |-> ok[n].equipement_id,
            technicien_id |-> ok[n].technicien_id,
            date_intervention |-> ok[n].date_intervention,
            type_intervention |-> ok[n].type_intervention,
            duree_minutes |-> ok[n].duree_minutes,
            cout |-> ok[n].cout, statut |-> ok[n].statut,
            equipement_nom |-> eqDe(ok[n]).nom,
            equipement_type |-> eqDe(ok[n]).type]]

\* the query of get_all_interventions_raw over the table inters: the
\* completed interventions with equipment name and type,
\* ORDER BY i.date_intervention (equal dates in rowid order)
interventions_raw_de(inters) ==
    LET rows == SelectSeq(JoinEquipement(inters), LAMBDA i : i.statut = "terminee")
    IN  SortedBy(rows, [n \in DOMAIN rows |-> DateTexteCle(rows[n].date_intervention)])

IndicateursDAO_get_all_interventions_raw == interventions_raw_de(interventions)

\* SELECT * FROM techniciens WHERE id = ?
TechnicienDAO_get_by_id(technicien_id) ==
    SelectSeq(techniciens, LAMBDA t : t.id = technicien_id)

\* the table after INSERT INTO interventions (...) VALUES (...): the new row
\* gets the next rowid
InterventionDAO_insert(equipement_id, technicien_id, date_intervention, type_intervention, duree_minutes, cout, statut) ==
    Append(interventions,
           [id |-> Len(interventions) + 1, equipement_id |-> equipement_id,
            technicien_id |-> technicien_id,
            date_intervention |-> date_intervention,
            type_intervention |-> type_intervention,
            duree_minutes |-> duree_minutes, cout |-> cout, statut |-> statut])

----------------------------------------------------------------------------
(* gui.py: the add-intervention form.  A text typed in a dialog is
   [vide, entier, val, nan]: vide for None or '', entier when int() accepts it,
   val the number it denotes.  A typed date is the tuple of its fields. *)

Annule == [vide |-> TRUE, entier |-> FALSE, val |-> 0, nan |-> FALSE]
TexteLibre == [vide |-> FALSE, entier |-> FALSE, val |-> 0, nan |-> FALSE]
Nombre(n) == [vide |-> FALSE, entier |-> TRUE, val |-> n, nan |-> FALSE]
\* 'nan', which float() accepts and int() rejects
TexteNaN == [vide |-> FALSE, entier |-> FALSE, val |-> 0, nan |-> TRUE]

\* how the form ends when the cost typed is 'nan': float() gives NaN,
\* NaN < 0 is false, sqlite3 binds NaN as NULL, and the table, whose cost
\* is a non-negative decimal, refuses the row; get_db_cursor rolls back and
\* the form reports the exception (line 722)
issue_cout_nan == "Erreur systeme"

TypesIntervention == {"preventive", "corrective", "installation", "mise_a_jour"}

\* the form without its lookup of the technician
show_add_intervention_issue_sans_technicien(eq_id_str, tech_id_str, type_int, date_int, duree_str, cout_str) ==
    LET rien(msg) == [msg |-> msg, table |-> interventions] IN
    IF eq_id_str.vide THEN rien("annule")
    ELSE IF ~eq_id_str.entier THEN rien("Erreur format")
    ELSE IF EquipementDAO_get_by_id(eq_id_str.val) = <<>>
         THEN rien("ID Equipement invalide.")
    ELSE IF tech_id_str.vide THEN rien("annule")
    ELSE IF ~tech_id_str.entier THEN rien("Erreur format")
    ELSE IF type_int \notin TypesIntervention THEN rien("Type invalide")
    ELSE IF date_int = <<>> THEN rien("annule")
    ELSE IF ~DateValide(date_int) THEN rien("Erreur format")
    ELSE IF duree_str.vide THEN rien("annule")
    ELSE IF ~duree_str.entier THEN rien("Erreur format")
    ELSE IF duree_str.val <= 0 THEN rien("La duree doit etre positive.")
    ELSE IF cout_str.vide THEN rien("annule")
    ELSE IF cout_str.nan THEN rien(issue_cout_nan)
    ELSE IF ~cout_str.entier THEN rien("Erreur format")
    ELSE IF cout_str.val < 0 THEN rien("Le cout ne peut pas etre negatif.")
    ELSE [msg   |-> "Intervention ajoutee avec succes.",
          table |-> InterventionDAO_insert(eq_id_str.val, tech_id_str.val, date_int,
                                           type_int, duree_str.val, cout_str.val,
                                           "terminee")]

\* the outcome of the form: the message it ends with and the table it leaves
show_add_intervention_issue(eq_id_str, tech_id_str, type_int, date_int, duree_str, cout_str) ==
    LET rien(msg) == [msg |-> msg, table |-> interventions] IN
    IF eq_id_str.vide THEN rien("annule")
    ELSE IF ~eq_id_str.entier THEN rien("Erreur format")
    ELSE IF EquipementDAO_get_by_id(eq_id_str.val) = <<>>
         THEN rien("ID Equipement invalide.")
    ELSE IF tech_id_str.vide THEN rien("annule")
    ELSE IF ~tech_id_str.entier THEN rien("Erreur format")
    ELSE IF TechnicienDAO_get_by_id(tech_id_str.val) = <<>>
         THEN rien("ID Technicien invalide.")
    ELSE IF type_int \notin TypesIntervention THEN rien("Type invalide")
    ELSE IF date_int = <<>> THEN rien("annule")
    ELSE IF ~DateValide(date_int) THEN rien("Erreur format")
    ELSE IF duree_str.vide THEN rien("annule")
    ELSE IF ~duree_str.entier THEN rien("Erreur format")
    ELSE IF duree_str.val <= 0 THEN rien("La duree doit etre positive.")
    ELSE IF cout_str.vide THEN rien("annule")
    ELSE IF cout_str.nan THEN rien(issue_cout_nan)
    ELSE IF ~cout_str.entier THEN rien("Erreur format")
    ELSE IF cout_str.val < 0 THEN rien("Le cout ne peut pas etre negatif.")
    ELSE [msg   |-> "Intervention ajoutee avec succes.",
          table |-> InterventionDAO_insert(eq_id_str.val, tech_id_str.val, date_int,
                                           type_int, duree_str.val, cout_str.val,
                                           "terminee")]

show_add_intervention(eq_id_str, tech_id_str, type_int, date_int, duree_str, cout_str) ==
    LET issue == show_add_intervention_issue(eq_id_str, tech_id_str, type_int,
                                             date_int, duree_str, cout_str)
    IN  /\ Len(interventions) < MaxInter
        /\ interventions' = issue.table
        /\ res' = Retour("show_add_intervention", issue.msg)
        /\ UNCHANGED <<equipements, techniciens, pieces, pieces_utilisees, utilisateurs, app, index_date, now>>

----------------------------------------------------------------------------
(* business_logic.py: MTBF per equipment.  A result is [absent, dixiemes]:
   absent for None, else the rounded value in tenths of a day. *)

MtbfAbsent == [absent |-> TRUE, dixiemes |-> 0]
MtbfValeur(d) == [absent |-> FALSE, dixiemes |-> d]

\* the grouping key of an intervention (line 110)
CleGroupeMtbf(inter) == inter.equipement_nom

\* interventions_par_equipement after the loop of lines 109-110
interventions_par_equipement(rows) ==
    [k \in {CleGroupeMtbf(rows[n]) : n \in DOMAIN rows} |->
        SelectSeq(rows, LAMBDA i : CleGroupeMtbf(i) = k)]

\* the dates whose range is the period (line 125)
DatesPeriodeMtbf(inters) ==
    {strptime(inters[n].date_intervention) : n \in DOMAIN inters}

\* the result for one group (lines 115-132)
mtbf_groupe(inters) ==
    LET correctives == SelectSeq(inters, LAMBDA i : i.type_intervention = "corrective")
        nb_pannes == Len(correctives)
    IN  IF nb_pannes < 2 THEN MtbfAbsent
        ELSE LET dates == DatesPeriodeMtbf(inters)
                 periode_jours == SetMax(dates) - SetMin(dates)
             IN  IF periode_jours > 0
                 THEN MtbfValeur(RoundHalfEven(periode_jours, nb_pannes, 10))
                 ELSE MtbfAbsent

\* the call: ValueError when a date of a group with 2 or more corrective
\* interventions does not parse
calculer_mtbf ==
    LET rows == IndicateursDAO_get_all_interventions_raw
        groupes == interventions_par_equipement(rows)
        fautif(k) ==
            /\ Len(SelectSeq(groupes[k],
                             LAMBDA i : i.type_intervention = "corrective")) >= 2
            /\ \E n \in DOMAIN groupes[k] :
                  ~DateValide(groupes[k][n].date_intervention)
    IN  IF rows = <<>> THEN Retour("calculer_mtbf", EmptyDict)
        ELSE IF \E k \in DOMAIN groupes : fautif(k)
             THEN Echec("calculer_mtbf", "ValueError")
        ELSE Retour("calculer_mtbf", [k \in DOMAIN groupes |-> mtbf_groupe(groupes[k])])

Appel_calculer_mtbf ==
    /\ res' = calculer_mtbf
    /\ UNCHANGED <<equipements, techniciens, interventions, pieces, pieces_utilisees, utilisateurs, app, index_date, now>>

----------------------------------------------------------------------------
(* SpecMtbf: fleets of one to MaxEquip equipment whose names may coincide,
   interventions entered through the form, MTBF computed *)

DateA == <<2025, 1, 10>>
DateB == <<2025, 2, 9>>      \* 30 days after DateA
DateC == <<2025, 12, 1>>

\* an intervention planned for DateC on equipment 1, as found in the store
InterventionPlanifiee ==
    [id |-> 1, equipement_id |-> 1, technicien_id |-> 1,
     date_intervention |-> DateC, type_intervention |-> "corrective",
     duree_minutes |-> 60, cout |-> 100, statut |-> "planifiee"]

InitMtbf ==
    /\ equipements \in UNION {TablesEquipements(n, {"Presse", "Tour"}, {"Machine"},
                                                {"actif"}, {<<2020, 1, 1>>}, {0})
                                : n \in 1..MaxEquip}
    /\ techniciens = TechniciensDepart
    /\ interventions \in {<<>>, <<InterventionPlanifiee>>}
    /\ pieces = PiecesDepart
    /\ pieces_utilisees = <<>>
    /\ utilisateurs = UtilisateursDepart
    /\ app = SessionDepart
    /\ index_date = FALSE
    /\ now = Now0
    /\ res = ResDepart

NextMtbf ==
    \/ \E e \in 1..MaxEquip + 1, t \in {"corrective", "preventive"}, d \in {DateA, DateB} :
          show_add_intervention(Nombre(e), Nombre(1), t, d, Nombre(60), Nombre(100))
    \/ Appel_calculer_mtbf

SpecMtbf == InitMtbf /\ [][NextMtbf]_vars

----------------------------------------------------------------------------
(* C2, C3, C4 *)

\* the completed interventions of the equipment record with this id
TermineesDe(eq_id) ==
    SelectSeq(interventions,
              LAMBDA i : i.equipement_id = eq_id /\ i.statut = "terminee")

NbCorrectivesDe(eq_id) ==
    Len(SelectSeq(TermineesDe(eq_id), LAMBDA i : i.type_intervention = "corrective"))

\* days between the earliest and the latest completed intervention of the record
PeriodeDe(eq_id) ==
    LET ds == {strptime(TermineesDe(eq_id)[n].date_intervention) :
                  n \in DOMAIN TermineesDe(eq_id)}
    IN  SetMax(ds) - SetMin(ds)

MtbfRendu == res.op = "calculer_mtbf" /\ res.exc = ""

\* C2: in the result of calculer_mtbf, the entry of every equipment that has
\* completed interventions of which 0 or 1 is corrective is the absent marker.
C2_Claim ==
    MtbfRendu =>
        \A k \in DOMAIN equipements :
            (TermineesDe(equipements[k].id) # <<>>
               /\ NbCorrectivesDe(equipements[k].id) <= 1)
            => /\ equipements[k].nom \in DOMAIN res.val
               /\ res.val[equipements[k].nom].absent

\* C3: for every equipment with at least 2 completed corrective
\* interventions, the entry is the days between the earliest and the latest
\* of ALL its completed interventions divided by its corrective count (to one
\* decimal) when that period is positive, and the absent marker when it is 0.
C3_Claim ==
    MtbfRendu =>
        \A k \in DOMAIN equipements :
            LET id == equipements[k].id IN
            NbCorrectivesDe(id) >= 2 =>
                /\ equipements[k].nom \in DOMAIN res.val
                /\ res.val[equipements[k].nom] =
                     IF PeriodeDe(id) > 0
                     THEN MtbfValeur(RoundHalfEven(PeriodeDe(id), NbCorrectivesDe(id), 10))
                     ELSE MtbfAbsent

\* C4: the result of calculer_mtbf has one entry for each equipment record
\* that has a completed intervention, and no entry pools the interventions
\* of two records: the entries are as many as those records.
C4_Claim ==
    MtbfRendu =>
        Cardinality(DOMAIN res.val) =
            Cardinality({k \in DOMAIN equipements : TermineesDe(equipements[k].id) # <<>>})

----------------------------------------------------------------------------
(* business_logic.py: reference year and cost trend *)

\* round(num/den, k) for any sign of num (round is symmetric about 0)
RoundSigne(num, den, scale) ==
    IF num >= 0 THEN RoundHalfEven(num, den, scale)
    ELSE -RoundHalfEven(-num, den, scale)

\* the attributes of class StatistiquesDAO (data_access.py lines 185-264)
StatistiquesDAO_attributs ==
    {"get_cout_total_maintenance", "get_nombre_interventions",
     "get_duree_moyenne_intervention", "get_interventions_avec_details",
     "get_interventions_par_technicien"}

\* the years that have completed interventions, most recent first
StatistiquesDAO_get_annees_disponibles ==
    LET rows == IndicateursDAO_get_all_interventions_raw
        annees == {rows[n].date_intervention[1] : n \in DOMAIN rows}
        RECURSIVE Desc(_)
        Desc(S) == IF S = {} THEN <<>> ELSE <<SetMax(S)>> \o Desc(S \ {SetMax(S)})
    IN  Desc(annees)

\* the year the clock shows: datetime.now().year, from the ordinal
AnneeDe(jour) == CHOOSE y \in 1..9999 : DaysBeforeYear(y) < jour /\ jour <= DaysBeforeYear(y + 1)

\* get_annee_reference: [exc, annee, horloge], horloge being the values it
\* read from the clock.  Looking up an attribute the class does not have
\* raises AttributeError.
get_annee_reference ==
    IF "get_annees_disponibles" \notin StatistiquesDAO_attributs
    THEN [exc |-> "AttributeError", annee |-> 0, horloge |-> <<>>]
    ELSE LET annees == StatistiquesDAO_get_annees_disponibles
         IN  IF annees # <<>> THEN [exc |-> "", annee |-> annees[1], horloge |-> <<>>]
             ELSE [exc |-> "", annee |-> AnneeDe(now.jour), horloge |-> <<now>>]

\* couts_par_mois after the loop of lines 151-155 over the rows, for annee
couts_par_mois(rows, annee) ==
    LET duMois(m) == SelectSeq(rows, LAMBDA i : i.date_intervention[1] = annee
                                                /\ i.date_intervention[2] = m)
        mois == {rows[n].date_intervention[2] :
                    n \in {j \in DOMAIN rows : rows[j].date_intervention[1] = annee}}
    IN  [m \in mois |-> SumSeq([n \in DOMAIN duMois(m) |-> duMois(m)[n].cout])]

\* sum(couts_par_mois.get(m, 0) for m in range(debut, fin))
SommeMois(cpm, debut, fin) ==
    SumSet(debut..(fin - 1), [m \in debut..(fin - 1) |-> DictGet(cpm, m, 0)])

\* the variation as a fraction [num, den] of percent (lines 168-171)
Variation(s1, s2) ==
    IF s1 > 0 THEN [num |-> (s2 - s1) * 100, den |-> s1]
    ELSE [num |-> IF s2 > 0 THEN 100 ELSE 0, den |-> 1]

\* mutant: the thresholds included in 'hausse' and 'baisse'
Classer_bornes_incluses(variation) ==
    IF variation.num >= 10 * variation.den THEN "hausse"
    ELSE IF variation.num <= -10 * variation.den THEN "baisse"
    ELSE "stable"

\* the classification of a variation (lines 173-178)
Classer(variation) ==
    IF variation.num > 10 * variation.den THEN "hausse"
    ELSE IF variation.num < -10 * variation.den THEN "baisse"
    ELSE "stable"

\* mutant: the short result returned only when no month has data
DonneesInsuffisantes_aucun_mois(cpm) == Cardinality(DOMAIN cpm) < 1

\* the guard of the short result (line 157)
DonneesInsuffisantes(cpm) == Cardinality(DOMAIN cpm) < 2

\* the body of calculer_tendance_couts once the year is known (lines 147-186)
tendance_de_annee(arg, annee) ==
    LET op   == "calculer_tendance_couts"
        rows == IndicateursDAO_get_all_interventions_raw
        cpm  == couts_par_mois(rows, annee)
        s1   == SommeMois(cpm, 1, 7)
        s2   == SommeMois(cpm, 7, 13)
        variation == Variation(s1, s2)
    IN  IF \E n \in DOMAIN rows : ~DateValide(rows[n].date_intervention)
        THEN EchecDe(op, arg, "ValueError")
        ELSE IF DonneesInsuffisantes(cpm)
        THEN RetourDe(op, arg, [tendance |-> "données insuffisantes",
                                variation_pct |-> 0,
                                detail_mois |-> cpm])
        ELSE RetourDe(op, arg, [tendance |-> Classer(variation),
                                variation_pct |-> RoundSigne(variation.num, variation.den, 100),
                                cout_s1 |-> s1,
                                cout_s2 |-> s2,
                                detail_mois |-> cpm])

\* calculer_tendance_couts(annee); arg is [donnee, annee], donnee FALSE when
\* the argument is left to its default None
calculer_tendance_couts(arg) ==
    IF ~arg.donnee
    THEN LET ref == get_annee_reference
         IN  IF ref.exc # ""
             THEN EchecLu("calculer_tendance_couts", arg, ref.horloge, ref.exc)
             ELSE [tendance_de_annee(arg, ref.annee) EXCEPT !.horloge = ref.horloge]
    ELSE tendance_de_annee(arg, arg.annee)

Appel_calculer_tendance_couts(arg) ==
    /\ res' = calculer_tendance_couts([donnee |-> arg.donnee, annee |-> arg.annee])
    /\ UNCHANGED <<equipements, techniciens, interventions, pieces, pieces_utilisees, utilisateurs, app, index_date, now>>

----------------------------------------------------------------------------
(* SpecTendance: one equipment, completed interventions of several months,
   years and costs entered through the form, the trend computed *)

SansAnnee == [donnee |-> FALSE, annee |-> 0]
Annee(a) == [donnee |-> TRUE, annee |-> a]

DatesTendance == {<<2025, 6, 30>>, <<2025, 7, 1>>, <<2024, 12, 31>>}
CoutsTendance == {0, 90, 95, 100, 110, 115}

InitTendance ==
    /\ equipements \in TablesEquipements(1, {"Presse"}, {"Machine"}, {"actif"},
                                         {<<2020, 1, 1>>}, {0})
    /\ techniciens = TechniciensDepart
    /\ interventions = <<>>
    /\ pieces = PiecesDepart
    /\ pieces_utilisees = <<>>
    /\ utilisateurs = UtilisateursDepart
    /\ app = SessionDepart
    /\ index_date = FALSE
    /\ now = Now0
    /\ res = ResDepart

NextTendance ==
    \/ \E d \in DatesTendance, c \in CoutsTendance :
          show_add_intervention(Nombre(1), Nombre(1), "corrective", d, Nombre(60), Nombre(c))
    \/ \E a \in {2024, 2025} : Appel_calculer_tendance_couts(Annee(a))
    \/ Appel_calculer_tendance_couts(SansAnnee)

SpecTendance == InitTendance /\ [][NextTendance]_vars

----------------------------------------------------------------------------
(* C5, C6, C7 *)

\* the rows of interventions that are completed and dated in year a
TermineesAnnee(a) ==
    {n \in DOMAIN interventions :
        /\ interventions[n].statut = "terminee"
        /\ interventions[n].date_intervention[1] = a}

MoisAvecDonnees(a) == {interventions[n].date_intervention[2] : n \in TermineesAnnee(a)}

\* cost sum of the completed interventions of year a whose month is in M
CoutDesMois(a, M) ==
    LET S == {n \in TermineesAnnee(a) : interventions[n].date_intervention[2] \in M}
    IN  SumSet(S, [n \in S |-> interventions[n].cout])

\* the year the default stands for: the most recent year with completed
\* interventions, the clock's year when there are none
AnneeParDefaut ==
    LET A == {interventions[n].date_intervention[1] :
                 n \in {j \in DOMAIN interventions : interventions[j].statut = "terminee"}}
    IN  IF A = {} THEN AnneeDe(now.jour) ELSE SetMax(A)

TendanceRendue == res.op = "calculer_tendance_couts" /\ res.arg.donnee /\ res.exc = ""

\* C5: called without a year, calculer_tendance_couts does not fail and
\* returns the trend of the most recent year with data (of the current year
\* when there is none).
C5_Claim ==
    (res.op = "calculer_tendance_couts" /\ ~res.arg.donnee) =>
        /\ res.exc = ""
        /\ res.val = tendance_de_annee(res.arg, AnneeParDefaut).val

\* C6: when fewer than 2 months of the asked year have completed
\* interventions, the result is 'données insuffisantes' with variation 0 and
\* a detail holding exactly the months that have data, and it has no
\* half-year sums.
C6_Insuffisant ==
    (res.op = "calculer_tendance_couts" /\ res.arg.donnee
       /\ Cardinality(MoisAvecDonnees(res.arg.annee)) < 2) =>
        /\ res.exc = ""
        /\ DOMAIN res.val = {"tendance", "variation_pct", "detail_mois"}
        /\ res.val.tendance = "données insuffisantes"
        /\ res.val.variation_pct = 0
        /\ DOMAIN res.val.detail_mois = MoisAvecDonnees(res.arg.annee)
        /\ \A m \in DOMAIN res.val.detail_mois :
              res.val.detail_mois[m] = CoutDesMois(res.arg.annee, {m})

\* the trend of a year with one month of data was asked while the store
\* also holds interventions of another year
C6_Witness ==
    /\ TendanceRendue
    /\ Cardinality(MoisAvecDonnees(res.arg.annee)) = 1
    /\ Len(interventions) >= 2
    /\ Cardinality(DOMAIN res.val.detail_mois) = 1

\* C7: with at least 2 months of data, s1 and s2 being the cost sums of
\* months 1-6 and 7-12, the variation is (s2-s1)/s1*100 when s1 > 0, else
\* 100 when s2 > 0, else 0; the trend is 'hausse' iff the variation is above
\* 10, 'baisse' iff it is below -10, 'stable' otherwise (exactly 10 and
\* exactly -10 are stable; 100/115 is hausse at +15.00, 100/95 stable at -5.00).
C7_Classement ==
    (res.op = "calculer_tendance_couts" /\ res.arg.donnee
       /\ Cardinality(MoisAvecDonnees(res.arg.annee)) >= 2) =>
        LET s1 == CoutDesMois(res.arg.annee, 1..6)
            s2 == CoutDesMois(res.arg.annee, 7..12)
            audessus == IF s1 > 0 THEN (s2 - s1) * 100 > 10 * s1 ELSE s2 > 0
            endessous == s1 > 0 /\ (s2 - s1) * 100 < -10 * s1
            v == res.val
        IN  /\ res.exc = ""
            /\ v.cout_s1 = s1 /\ v.cout_s2 = s2
            /\ v.tendance \in {"hausse", "baisse", "stable"}
            /\ v.tendance = "hausse" <=> audessus
            /\ v.tendance = "baisse" <=> endessous
            /\ IF s1 > 0
               THEN 2 * Abs(v.variation_pct * s1 - (s2 - s1) * 10000) <= s1
               ELSE v.variation_pct = (IF s2 > 0 THEN 10000 ELSE 0)
            /\ (s1 = 100 /\ s2 = 115) => (v.tendance = "hausse" /\ v.variation_pct = 1500)
            /\ (s1 = 100 /\ s2 = 95) => (v.tendance = "stable" /\ v.variation_pct = -500)
            /\ (s1 = 100 /\ s2 \in {90, 110}) => v.tendance = "stable"

\* a year whose second half costs exactly 10 % more than its first was rated
C7_Witness ==
    /\ TendanceRendue
    /\ Cardinality(MoisAvecDonnees(res.arg.annee)) >= 2
    /\ res.val.cout_s1 = 100 /\ res.val.cout_s2 = 110
    /\ res.val.variation_pct = 1000
    /\ res.val.tendance = "stable"

----------------------------------------------------------------------------
(* business_logic.py: reliability index per equipment *)

JoursParAn == 365
PenalitePanne == 15
TrancheCout == 500
PenaliteTranche == 10
AjustAge == 10

\* mutant: an equipment aged exactly 2 years still gets the bonus
AjustementAge_deux_ans_inclus(age_jours) ==
    IF age_jours <= 2 * JoursParAn THEN AjustAge
    ELSE IF age_jours > 5 * JoursParAn THEN -AjustAge
    ELSE 0

\* the bonus or penalty for the age (lines 237-241); age_annees is
\* age_jours / 365, so age_annees < 2 is age_jours < 2 * 365
AjustementAge(age_jours) ==
    IF age_jours < 2 * JoursParAn THEN AjustAge
    ELSE IF age_jours > 5 * JoursParAn THEN -AjustAge
    ELSE 0

\* mutant: the upper limit forgotten
Normaliser_sans_plafond(score) == Max(0, score)

\* max(0, min(100, score)) (line 244)
Normaliser(score) == Max(0, Min(100, score))

\* the index of one equipment (lines 228-244, 254).  The score is a whole
\* number whatever the costs (cout_total // 500 is one), so int() changes
\* its type only.
Score(nb_correctives, cout_total, age_jours) ==
    Normaliser(100 - nb_correctives * PenalitePanne
                   - (cout_total \div TrancheCout) * PenaliteTranche
                   + AjustementAge(age_jours))

\* mutant: the interventions grouped by equipment name
EntreeFiabilite_par_nom(eq, rows, date_reference) ==
    LET inters == SelectSeq(rows, LAMBDA i : i.equipement_nom = eq.nom)
        nb_correctives ==
            Len(SelectSeq(inters, LAMBDA i : i.type_intervention = "corrective"))
        cout_total == SumSeq([n \in DOMAIN inters |-> inters[n].cout])
        age_jours == TimedeltaDays(date_reference, Minuit(eq.date_acquisition))
    IN  [equipement_id |-> eq.id,
         nom |-> eq.nom,
         type |-> eq.type,
         age_annees |-> RoundSigne(age_jours, JoursParAn, 10),
         nb_interventions |-> Len(inters),
         nb_pannes |-> nb_correctives,
         cout_total |-> cout_total,
         indice_fiabilite |-> Score(nb_correctives, cout_total, age_jours)]

\* the entry appended for equipment eq (lines 213-255)
EntreeFiabilite(eq, rows, date_reference) ==
    LET inters == SelectSeq(rows, LAMBDA i : i.equipement_id = eq.id)
        nb_correctives ==
            Len(SelectSeq(inters, LAMBDA i : i.type_intervention = "corrective"))
        cout_total == SumSeq([n \in DOMAIN inters |-> inters[n].cout])
        age_jours == TimedeltaDays(date_reference, Minuit(eq.date_acquisition))
    IN  [equipement_id |-> eq.id,
         nom |-> eq.nom,
         type |-> eq.type,
         age_annees |-> RoundSigne(age_jours, JoursParAn, 10),
         nb_interventions |-> Len(inters),
         nb_pannes |-> nb_correctives,
         cout_total |-> cout_total,
         indice_fiabilite |-> Score(nb_correctives, cout_total, age_jours)]

\* mutant: sorted ascending, then reversed
TrierParIndice_puis_inverser(resultats) ==
    LET asc == SortedBy(resultats,
                        [n \in DOMAIN resultats |-> resultats[n].indice_fiabilite])
    IN  [n \in DOMAIN asc |-> asc[Len(asc) + 1 - n]]

\* resultats.sort(key=indice_fiabilite, reverse=True): descending, equal
\* keys in their original order (line 258)
TrierParIndice(resultats) ==
    SortedBy(resultats, [n \in DOMAIN resultats |-> -resultats[n].indice_fiabilite])

calculer_indice_fiabilite_equipements ==
    LET op == "calculer_indice_fiabilite_equipements"
        eqs == EquipementDAO_get_all
        rows == IndicateursDAO_get_all_interventions_raw
        date_reference == now
        arg == [date_reference |-> date_reference]
    IN  IF \E k \in DOMAIN eqs : ~DateValide(eqs[k].date_acquisition)
        THEN EchecLu(op, arg, <<date_reference>>, "ValueError")
        ELSE RetourLu(op, arg, <<date_reference>>,
                      TrierParIndice([k \in DOMAIN eqs |->
                                         EntreeFiabilite(eqs[k], rows, date_reference)]))

Appel_calculer_indice_fiabilite_equipements ==
    /\ res' = calculer_indice_fiabilite_equipements
    /\ UNCHANGED <<equipements, techniciens, interventions, pieces, pieces_utilisees, utilisateurs, app, index_date, now>>

\* a day passes
Tick ==
    /\ now.jour < Now0.jour + MaxTicks
    /\ now' = [now EXCEPT !.jour = @ + 1]
    /\ UNCHANGED <<equipements, techniciens, interventions, pieces, pieces_utilisees, utilisateurs, app, index_date, res>>

----------------------------------------------------------------------------
(* SpecFiab: fleets of one to MaxEquip equipment bought 729 or 1825 days
   before the start, interventions entered through the form, the clock
   advancing, the reliability index computed *)

AcqRecent == <<2023, 6, 17>>     \* 729 days before DateDepart
AcqAncien == <<2020, 6, 16>>     \* 1825 days before DateDepart

ProfilsFiab ==
    {[nom |-> "Tour", date_acquisition |-> AcqRecent],
     [nom |-> "Presse", date_acquisition |-> AcqAncien]}

InitFiab ==
    /\ equipements \in
         UNION {{[i \in 1..n |-> [id |-> i, nom |-> f[i].nom, type |-> "Machine",
                                  statut |-> "actif",
                                  date_acquisition |-> f[i].date_acquisition,
                                  heures_utilisation |-> 0]]
                   : f \in [1..n -> ProfilsFiab]} : n \in 1..MaxEquip}
    /\ techniciens = TechniciensDepart
    /\ interventions = <<>>
    /\ pieces = PiecesDepart
    /\ pieces_utilisees = <<>>
    /\ utilisateurs = UtilisateursDepart
    /\ app = SessionDepart
    /\ index_date = FALSE
    /\ now = Now0
    /\ res = ResDepart

SaisiesFiab ==
    {[type |-> "corrective", cout |-> 499], [type |-> "preventive", cout |-> 2600]}

NextFiab ==
    \/ \E e \in DOMAIN equipements, s \in SaisiesFiab :
          show_add_intervention(Nombre(e), Nombre(1), s.type, DateA, Nombre(60), Nombre(s.cout))
    \/ Tick
    \/ Appel_calculer_indice_fiabilite_equipements

SpecFiab == InitFiab /\ [][NextFiab]_vars

----------------------------------------------------------------------------
(* C8, C9, C10 *)

FiabRendue == res.op = "calculer_indice_fiabilite_equipements"

\* age in days of equipment row k at the reference time of the call
AgeJoursDe(k) ==
    (res.arg.date_reference.jour - strptime(equipements[k].date_acquisition))

CoutTotalDe(eq_id) ==
    SumSeq([n \in DOMAIN TermineesDe(eq_id) |-> TermineesDe(eq_id)[n].cout])

\* the entries of the result for the equipment with this id
EntreesDe(eq_id) == {n \in DOMAIN res.val : res.val[n].equipement_id = eq_id}

\* C8: the result of calculer_indice_fiabilite_equipements has exactly one
\* entry per equipment record, and every index is an integer in [0, 100].
C8_Indice ==
    FiabRendue =>
        /\ res.exc = ""
        /\ Len(res.val) = Len(equipements)
        /\ \A k \in DOMAIN equipements : Cardinality(EntreesDe(equipements[k].id)) = 1
        /\ \A n \in DOMAIN res.val : res.val[n].indice_fiabilite \in 0..100

\* one result holds an index brought down to 100 and one brought up to 0
C8_Witness ==
    /\ FiabRendue
    /\ \E n, m \in DOMAIN res.val :
          /\ res.val[n].indice_fiabilite = 100 /\ res.val[n].nb_interventions = 0
          /\ res.val[m].indice_fiabilite = 0 /\ res.val[m].cout_total > 5000

\* C9: the index of an equipment is 100 - 15 * n_fail - 10 * floor(cost_total
\* / 500) + adj limited to [0, 100] once at the end, n_fail being its
\* completed corrective interventions, cost_total the cost of its completed
\* interventions, adj +10 under 2 years of age (age_days / 365), -10 over 5
\* years, 0 from exactly 2 to exactly 5 years.
C9_Formule ==
    FiabRendue =>
        \A k \in DOMAIN equipements :
            LET id == equipements[k].id
                age == AgeJoursDe(k)
                adj == IF age < 730 THEN 10 ELSE IF age > 1825 THEN -10 ELSE 0
                brut == 100 - 15 * NbCorrectivesDe(id)
                            - 10 * (CoutTotalDe(id) \div 500) + adj
                attendu == IF brut < 0 THEN 0 ELSE IF brut > 100 THEN 100 ELSE brut
            IN  \A n \in EntreesDe(id) :
                    /\ res.val[n].indice_fiabilite = attendu
                    /\ res.val[n].nb_pannes = NbCorrectivesDe(id)
                    /\ res.val[n].cout_total = CoutTotalDe(id)

\* an equipment aged exactly 730 days (2 years) with one failure of 499
\* euros was rated 85: no bonus, no tranche
C9_Witness ==
    /\ FiabRendue
    /\ \E k \in DOMAIN equipements :
          /\ AgeJoursDe(k) = 730
          /\ NbCorrectivesDe(equipements[k].id) = 1
          /\ CoutTotalDe(equipements[k].id) = 499
          /\ \E n \in EntreesDe(equipements[k].id) : res.val[n].indice_fiabilite = 85

\* position of the equipment with this id in the list read from the store
RangLecture(eq_id) ==
    CHOOSE k \in DOMAIN EquipementDAO_get_all : EquipementDAO_get_all[k].id = eq_id

\* C10: the result is ordered by index descending, and entries of equal
\* index are in the order of the equipment list read from the store.
C10_Tri ==
    FiabRendue =>
        \A n, m \in DOMAIN res.val :
            n < m =>
               /\ res.val[n].indice_fiabilite >= res.val[m].indice_fiabilite
               /\ res.val[n].indice_fiabilite = res.val[m].indice_fiabilite
                    => RangLecture(res.val[n].equipement_id)
                         < RangLecture(res.val[m].equipement_id)

\* a result with two entries of equal index whose order of reading is not
\* their order of creation, and a third of another index
C10_Witness ==
    /\ FiabRendue
    /\ \E n, m \in DOMAIN res.val :
          /\ n < m
          /\ res.val[n].indice_fiabilite = res.val[m].indice_fiabilite
          /\ res.val[n].equipement_id > res.val[m].equipement_id
    /\ \E n \in DOMAIN res.val : res.val[n].nb_interventions > 0

----------------------------------------------------------------------------
(* business_logic.py: generer_alertes_maintenance.  An alert is
   [equipement, niveau, message]; the formatted message is the record
   [texte, n, date] of its wording, the number and the date it prints
   (<<>> when it prints no date). *)

SeuilHeures == 2000
HorizonPreventive == 7
JoursSansMaintenance == 180
FenetrePannes == 180
SeuilPannes == 2
SeuilCout == 1000

RECURSIVE Aplatir(_)
\* the concatenation of a sequence of sequences
Aplatir(ss) == IF ss = <<>> THEN <<>> ELSE Head(ss) \o Aplatir(Tail(ss))

\* the query of get_interventions_avec_details over the table inters: every
\* intervention that has its equipment and its technician, ORDER BY
\* i.date_intervention DESC.  SQL leaves the order of equal dates to the
\* query plan: rowid ascending when the rows are sorted, rowid descending
\* when an index on the date is read backwards.
interventions_avec_details_de(inters) ==
    LET rows == SelectSeq(JoinEquipement(inters),
                          LAMBDA i : TechnicienDAO_get_by_id(i.technicien_id) # <<>>)
        rang(n) == IF index_date THEN -rows[n].id ELSE rows[n].id
        parRang == SortedBy(rows, [n \in DOMAIN rows |-> rang(n)])
    IN  SortedBy(parRang,
                 [n \in DOMAIN parRang |-> -DateTexteCle(parRang[n].date_intervention)])

StatistiquesDAO_get_interventions_avec_details ==
    interventions_avec_details_de(interventions)

Alerte(nom, niveau, texte, n, date) ==
    [equipement |-> nom, niveau |-> niveau,
     message |-> [texte |-> texte, n |-> n, date |-> date]]

\* (date_prevue - date_reference).days + 1 (line 287)
jours_restants(date_intervention, date_reference) ==
    TimedeltaDays(Minuit(date_intervention), date_reference) + 1

\* the except clause of rule 1 (lines 301-302): the record is passed over
SurDateInvalide_alerte(inter) == <<Alerte(inter.equipement_nom, "ATTENTION", "date invalide", 0, inter.date_intervention)>>
SurDateInvalide(inter) == <<>>

\* the test that selects the interventions of rule 1 (line 284)
EstPreventivePlanifiee_tout_type(inter) == inter.statut = "planifiee"
EstPreventivePlanifiee(inter) == inter.type_intervention = "preventive" /\ inter.statut = "planifiee"

\* the two branches on jours_restants (lines 289-300)
AlertePreventive_retard_des_zero(inter, jr) == IF 0 < jr /\ jr <= HorizonPreventive THEN <<Alerte(inter.equipement_nom, "INFO", "prevue", jr, inter.date_intervention)>> ELSE IF jr <= 0 THEN <<Alerte(inter.equipement_nom, "ATTENTION", "retard", -jr, inter.date_intervention)>> ELSE <<>>
AlertePreventive(inter, jr) ==
    IF 0 <= jr /\ jr <= HorizonPreventive
    THEN <<Alerte(inter.equipement_nom, "INFO", "prevue", jr, inter.date_intervention)>>
    ELSE IF jr < 0
    THEN <<Alerte(inter.equipement_nom, "ATTENTION", "retard",
                  IF jr < 0 THEN -jr ELSE jr, inter.date_intervention)>>
    ELSE <<>>

\* rule 1 for one intervention (lines 284-302)
alertes_preventive(inter, date_reference) ==
    IF ~EstPreventivePlanifiee(inter) THEN <<>>
    ELSE IF ~DateValide(inter.date_intervention) THEN SurDateInvalide(inter)
    ELSE AlertePreventive(inter, jours_restants(inter.date_intervention, date_reference))

\* date >= six_mois for the midnight of a date and a datetime (line 349)
PasAvant(date, six_mois) ==
    \/ strptime(date) > six_mois.jour
    \/ strptime(date) = six_mois.jour /\ six_mois.secondes = 0

\* pannes_recentes (lines 345-350): the corrective interventions of inters
\* dated on or after six_mois = date_reference - 180 days
pannes_recentes_toutes(inters, date_reference) == Len(SelectSeq(inters, LAMBDA i : i.type_intervention = "corrective"))
pannes_recentes(inters, date_reference) ==
    LET six_mois == [jour |-> date_reference.jour - FenetrePannes,
                     secondes |-> date_reference.secondes]
    IN  Len(SelectSeq(inters, LAMBDA i : /\ i.type_intervention = "corrective"
                                        /\ PasAvant(i.date_intervention, six_mois)))

\* the alert of an equipment without completed intervention (lines 322-328)
AucuneIntervention_toujours(eq, inters) == <<Alerte(eq.nom, "INFO", "aucune", 0, <<>>)>>
AucuneIntervention(eq, inters) ==
    IF inters = <<>> THEN <<Alerte(eq.nom, "INFO", "aucune", 0, <<>>)>> ELSE <<>>

\* the earliest date in place of the latest
derniere_premiere(inters) ==
    SetMin({strptime(inters[n].date_intervention) : n \in DOMAIN inters})

\* derniere = max(dates) (lines 332-333), as a day number
derniere(inters) ==
    SetMax({strptime(inters[n].date_intervention) : n \in DOMAIN inters})

\* the alerts of one equipment (lines 310-366), inters being its completed
\* interventions with valid dates
alertes_equipement(eq, inters, date_reference) ==
    LET heures == eq.heures_utilisation
        utilisation == IF heures # 0 /\ heures > SeuilHeures
                       THEN <<Alerte(eq.nom, "ATTENTION", "utilisation", heures, <<>>)>>
                       ELSE <<>>
        jours_depuis == TimedeltaDays(date_reference,
                                      [jour |-> derniere(inters), secondes |-> 0])
        ancienne == IF jours_depuis > JoursSansMaintenance
                    THEN <<Alerte(eq.nom, "ATTENTION", "sans maintenance", jours_depuis, <<>>)>>
                    ELSE <<>>
        nb == pannes_recentes(inters, date_reference)
        pannes == IF nb >= SeuilPannes
                  THEN <<Alerte(eq.nom, "CRITIQUE", "pannes", nb, <<>>)>>
                  ELSE <<>>
        cout_total == SumSeq([n \in DOMAIN inters |-> inters[n].cout])
        cout == IF cout_total > SeuilCout
                THEN <<Alerte(eq.nom, "ATTENTION", "cout", cout_total, <<>>)>>
                ELSE <<>>
        \* continue (line 329) leaves the other rules out
        suite == IF inters = <<>> THEN <<>> ELSE ancienne \o pannes \o cout
    IN  utilisation \o AucuneIntervention(eq, inters) \o suite

\* ordre_niveaux.get(niveau, 3) (lines 369-370)
ordre_niveaux(niveau) ==
    CASE niveau = "CRITIQUE" -> 0
      [] niveau = "ATTENTION" -> 1
      [] niveau = "INFO" -> 2
      [] OTHER -> 3

\* alertes.sort(key=ordre_niveaux...) (line 370): ascending, stable
TrierParNiveau_instable(alertes) == LET inv == [n \in DOMAIN alertes |-> alertes[Len(alertes) + 1 - n]] s == SortedBy(inv, [n \in DOMAIN inv |-> ordre_niveaux(inv[n].niveau)]) IN s
TrierParNiveau(alertes) ==
    SortedBy(alertes, [n \in DOMAIN alertes |-> ordre_niveaux(alertes[n].niveau)])

\* the list alertes before the final sort, for the tables eqs (in get_all
\* order) and inters and the reference time (lines 275-366)
alertes_generees(eqs, inters, date_reference) ==
    LET terminees == interventions_raw_de(inters)
        toutes == interventions_avec_details_de(inters)
        regle1 == Aplatir([n \in DOMAIN toutes |->
                              alertes_preventive(toutes[n], date_reference)])
        de(eq) == SelectSeq(terminees, LAMBDA i : i.equipement_id = eq.id)
    IN  regle1 \o Aplatir([k \in DOMAIN eqs |->
                              alertes_equipement(eqs[k], de(eqs[k]), date_reference)])

\* whether line 332 raises ValueError: a completed intervention of an
\* equipment carries a date strptime rejects
DateTermineeInvalide(eqs, inters) ==
    \E n \in DOMAIN inters, k \in DOMAIN eqs :
        /\ inters[n].statut = "terminee"
        /\ inters[n].equipement_id = eqs[k].id
        /\ ~DateValide(inters[n].date_intervention)

\* generer_alertes_maintenance over the tables eqs and inters
alertes_de(eqs, inters, date_reference) ==
    LET op == "generer_alertes_maintenance"
        arg == [date_reference |-> date_reference]
    IN  IF DateTermineeInvalide(eqs, inters)
        THEN EchecLu(op, arg, <<date_reference>>, "ValueError")
        ELSE RetourLu(op, arg, <<date_reference>>,
                      TrierParNiveau(alertes_generees(eqs, inters, date_reference)))

generer_alertes_maintenance == alertes_de(EquipementDAO_get_all, interventions, now)

Appel_generer_alertes_maintenance ==
    /\ res' = generer_alertes_maintenance
    /\ UNCHANGED <<equipements, techniciens, interventions, pieces, pieces_utilisees, utilisateurs, app, index_date, now>>

----------------------------------------------------------------------------
(* SpecAlertes: fleets of one to MaxEquip equipment, a store that holds up
   to two planned interventions, completed interventions entered through
   the form, the clock advancing, the alerts generated *)

DatePrevueA == <<2025, 6, 14>>     \* the day before DateDepart
DatePrevueB == <<2025, 6, 22>>     \* 7 days after DateDepart
DateInvalide == <<2025, 2, 30>>    \* a text strptime rejects
DateAncienne == <<2024, 12, 17>>   \* 180 days before DateDepart

\* equipment i of the fleet: the first is a heavily used 'Tour', the others
\* are named 'Presse'
EquipementAlertes(i) ==
    [id |-> i, nom |-> IF i = 1 THEN "Tour" ELSE "Presse", type |-> "Machine",
     statut |-> "actif", date_acquisition |-> <<2020, 1, 1>>,
     heures_utilisation |-> IF i = 1 THEN 2500 ELSE 0]

\* what a planned intervention of the store may be
PlanifsDepart ==
    {[type_intervention |-> "preventive", date_intervention |-> DatePrevueA],
     [type_intervention |-> "preventive", date_intervention |-> DatePrevueB],
     [type_intervention |-> "preventive", date_intervention |-> DateInvalide],
     [type_intervention |-> "corrective", date_intervention |-> DatePrevueA]}

\* the pairs of planned interventions the store may hold at the start
PairesDepart ==
    {pq \in PlanifsDepart \X PlanifsDepart :
        /\ pq[2].type_intervention = "preventive"
        /\ pq[2].date_intervention = DatePrevueA}

Planifiee(id, equipement_id, p) ==
    [id |-> id, equipement_id |-> equipement_id, technicien_id |-> 1,
     date_intervention |-> p.date_intervention,
     type_intervention |-> p.type_intervention,
     duree_minutes |-> 60, cout |-> 100, statut |-> "planifiee"]

InitAlertes ==
    /\ \E n \in 1..MaxEquip :
         /\ equipements = [i \in 1..n |-> EquipementAlertes(i)]
         /\ interventions \in
              {<<>>} \cup {<<Planifiee(1, 1, p)>> : p \in PlanifsDepart}
                     \cup {<<Planifiee(1, 1, pq[1]), Planifiee(2, n, pq[2])>> :
                              pq \in PairesDepart}
    /\ techniciens = TechniciensDepart
    /\ pieces = PiecesDepart
    /\ pieces_utilisees = <<>>
    /\ utilisateurs = UtilisateursDepart
    /\ app = SessionDepart
    \* the order of equal dates shows only when two planned dates are equal
    /\ index_date \in IF Len(interventions) = 2 THEN BOOLEAN ELSE {FALSE}
    /\ now \in {[jour |-> Now0.jour, secondes |-> s] : s \in {0, 43200}}
    /\ res = ResDepart

\* what is entered for equipment e: corrective interventions of the day
\* before, and for the first equipment also corrective ones 180 days back
\* and preventive ones
SaisiesAlertes(e) ==
    {[type |-> "corrective", date |-> DatePrevueA]}
    \cup (IF e = 1 THEN {[type |-> "corrective", date |-> DateAncienne],
                         [type |-> "preventive", date |-> DatePrevueA]}
          ELSE {})

NextAlertes ==
    \/ \E e \in DOMAIN equipements : \E s \in SaisiesAlertes(e) :
          show_add_intervention(Nombre(e), Nombre(1), s.type, s.date, Nombre(60), Nombre(600))
    \/ Tick
    \/ Appel_generer_alertes_maintenance

SpecAlertes == InitAlertes /\ [][NextAlertes]_vars

----------------------------------------------------------------------------
(* Alerts: claims C11 to C15 *)

AlertesRendues == res.op = "generer_alertes_maintenance" /\ res.exc = ""

\* the name of the equipment record eq_id
NomDe(eq_id) ==
    equipements[CHOOSE k \in DOMAIN equipements : equipements[k].id = eq_id].nom

\* days_remaining of the claim: the whole days from the reference time of
\* the call to the midnight of date, rounded down, plus one.  A reference
\* time after midnight takes one whole day off the difference of the dates.
JoursRestantsDe(date) ==
    LET ecart == strptime(date) - res.arg.date_reference.jour
    IN  (IF res.arg.date_reference.secondes = 0 THEN ecart ELSE ecart - 1) + 1

\* the positions of the planned preventive interventions whose date parses
PreventivesPlanifiees ==
    {n \in DOMAIN interventions : /\ interventions[n].type_intervention = "preventive"
                                  /\ interventions[n].statut = "planifiee"
                                  /\ DateValide(interventions[n].date_intervention)}

\* the alert the rule owes for the planned preventive intervention at n,
\* <<>> when it owes none
AlerteDue(n) ==
    LET i == interventions[n]
        jr == JoursRestantsDe(i.date_intervention)
    IN  IF 0 <= jr /\ jr <= 7
        THEN <<[equipement |-> NomDe(i.equipement_id), niveau |-> "INFO",
                message |-> [texte |-> "prevue", n |-> jr, date |-> i.date_intervention]]>>
        ELSE IF jr < 0
        THEN <<[equipement |-> NomDe(i.equipement_id), niveau |-> "ATTENTION",
                message |-> [texte |-> "retard", n |-> -jr, date |-> i.date_intervention]]>>
        ELSE <<>>

\* the positions of the rule-1 alerts in the returned list
AlertesRegle1 == {k \in DOMAIN res.val : res.val[k].message.texte \in {"prevue", "retard"}}

\* C11: every planned preventive intervention yields at most one alert: INFO
\* 'due in N days' iff 0 <= days_remaining <= 7, ATTENTION 'overdue by
\* |days_remaining| days' iff days_remaining < 0, nothing iff days_remaining
\* > 7, with days_remaining = (planned date - reference time).days + 1; no
\* other intervention yields a rule-1 alert.  Stated as: the rule-1 alerts
\* of the returned list are, with multiplicity, the alerts due.
C11_Preventive ==
    AlertesRendues =>
        /\ \A k \in AlertesRegle1 :
              Cardinality({j \in AlertesRegle1 : res.val[j] = res.val[k]})
                = Cardinality({n \in PreventivesPlanifiees : AlerteDue(n) = <<res.val[k]>>})
        /\ \A n \in PreventivesPlanifiees :
              AlerteDue(n) # <<>> => \E k \in AlertesRegle1 : <<res.val[k]>> = AlerteDue(n)

\* alerts were generated at midnight for a store holding a preventive
\* intervention planned the day before (0 days remaining: INFO) and one
\* planned 7 days ahead (8 days remaining: nothing)
C11_Witness ==
    /\ AlertesRendues
    /\ res.arg.date_reference.secondes = 0
    /\ \E n \in PreventivesPlanifiees : JoursRestantsDe(interventions[n].date_intervention) = 0
    /\ \E n \in PreventivesPlanifiees : JoursRestantsDe(interventions[n].date_intervention) = 8
    /\ \E k \in AlertesRegle1 : res.val[k].niveau = "INFO" /\ res.val[k].message.n = 0

\* alerts were generated at noon for a store holding an overdue preventive
\* intervention (ATTENTION, 1 day) and one with exactly 7 days remaining (INFO)
C11_WitnessRetard ==
    /\ AlertesRendues
    /\ \E k \in AlertesRegle1 : res.val[k].niveau = "ATTENTION" /\ res.val[k].message.n = 1
    /\ \E k \in AlertesRegle1 : res.val[k].niveau = "INFO" /\ res.val[k].message.n = 7

\* whether the row is a planned preventive intervention whose date does not parse
DateIllisible(i) ==
    /\ i.type_intervention = "preventive"
    /\ i.statut = "planifiee"
    /\ ~DateValide(i.date_intervention)

\* the interventions table without the rows of unparsable planned date
SansIllisibles == SelectSeq(interventions, LAMBDA i : ~DateIllisible(i))

\* C12: a planned preventive intervention whose date does not parse gives no
\* alert and no error: the call returns, and it returns what it returns for
\* the store without that record.
C12_DateIllisible ==
    (res.op = "generer_alertes_maintenance"
       /\ \E n \in DOMAIN interventions : DateIllisible(interventions[n])) =>
        /\ res.exc = ""
        /\ \A k \in DOMAIN res.val : res.val[k].message.date # DateInvalide
        /\ res = alertes_de(EquipementDAO_get_all, SansIllisibles, res.arg.date_reference)

\* alerts were generated for a store that holds an unparsable planned date
\* next to an overdue planned intervention and a completed one
C12_Witness ==
    /\ AlertesRendues
    /\ \E n \in DOMAIN interventions : DateIllisible(interventions[n])
    /\ \E k \in DOMAIN res.val : res.val[k].message.texte = "retard"
    /\ \E n \in DOMAIN interventions : interventions[n].statut = "terminee"

\* the equipment records named nom
RecordsNommes(nom) == {k \in DOMAIN equipements : equipements[k].nom = nom}

\* the completed interventions of the equipment record at k
TermineesDuRecord(k) ==
    {n \in DOMAIN interventions : /\ interventions[n].statut = "terminee"
                                  /\ interventions[n].equipement_id = equipements[k].id}

\* the positions of the alerts of wording texte raised for the name nom
AlertesDe(nom, texte) ==
    {k \in DOMAIN res.val : res.val[k].equipement = nom /\ res.val[k].message.texte = texte}

\* C13: an equipment without completed intervention gets exactly one INFO
\* 'no recorded intervention' alert and no stale-maintenance, failure-cluster
\* or high-cost alert; an equipment with a completed intervention never gets
\* the 'no recorded intervention' alert.  Alerts carry the equipment name, so
\* per name: as many 'no recorded intervention' alerts as records without
\* completed intervention, and at most as many alerts of each of the three
\* other rules as records with one.
C13_SansIntervention ==
    AlertesRendues =>
        \A e \in DOMAIN equipements :
            LET nom == equipements[e].nom
                sans == {k \in RecordsNommes(nom) : TermineesDuRecord(k) = {}}
                avec == RecordsNommes(nom) \ sans
            IN  /\ Cardinality(AlertesDe(nom, "aucune")) = Cardinality(sans)
                /\ \A k \in AlertesDe(nom, "aucune") : res.val[k].niveau = "INFO"
                /\ \A t \in {"sans maintenance", "pannes", "cout"} :
                      Cardinality(AlertesDe(nom, t)) <= Cardinality(avec)

\* alerts were generated for a fleet in which one equipment has no completed
\* intervention (only a planned one) and another has its cost alert
C13_Witness ==
    /\ AlertesRendues
    /\ \E e \in DOMAIN equipements :
          /\ TermineesDuRecord(e) = {}
          /\ \E n \in DOMAIN interventions : interventions[n].equipement_id = equipements[e].id
          /\ Cardinality(AlertesDe(equipements[e].nom, "aucune")) = 1
    /\ \E k \in DOMAIN res.val : res.val[k].message.texte = "cout"

\* the completed corrective interventions of the record at k dated on or
\* after the reference time of the call minus 180 days
PannesDansFenetre(k) ==
    {n \in TermineesDuRecord(k) :
        /\ interventions[n].type_intervention = "corrective"
        /\ (strptime(interventions[n].date_intervention)
               - (res.arg.date_reference.jour - 180)) * 86400
             >= res.arg.date_reference.secondes}

\* C14: an equipment gets a CRITIQUE 'consider replacement' alert iff at
\* least 2 of its completed corrective interventions are dated on or after
\* the reference time minus 180 days.  Per name: as many CRITIQUE alerts as
\* records with such a cluster, each reporting a count of at least 2.
C14_Pannes ==
    AlertesRendues =>
        /\ \A e \in DOMAIN equipements :
              LET nom == equipements[e].nom
              IN  Cardinality({k \in DOMAIN res.val : /\ res.val[k].equipement = nom
                                                      /\ res.val[k].niveau = "CRITIQUE"})
                    = Cardinality({k \in RecordsNommes(nom) :
                                      Cardinality(PannesDansFenetre(k)) >= 2})
        /\ \A k \in DOMAIN res.val :
              res.val[k].niveau = "CRITIQUE" =>
                  /\ res.val[k].message.texte = "pannes"
                  /\ \E e \in RecordsNommes(res.val[k].equipement) :
                        Cardinality(PannesDansFenetre(e)) = res.val[k].message.n

\* alerts were generated at midnight with two corrective interventions dated
\* exactly 180 days earlier on one equipment: CRITIQUE
C14_Witness ==
    /\ AlertesRendues
    /\ res.arg.date_reference.secondes = 0
    /\ \E e \in DOMAIN equipements :
          /\ Cardinality(PannesDansFenetre(e)) = 2
          /\ \A n \in PannesDansFenetre(e) :
                strptime(interventions[n].date_intervention) = res.arg.date_reference.jour - 180
    /\ \E k \in DOMAIN res.val : res.val[k].niveau = "CRITIQUE"

\* alerts were generated at noon for an equipment with two completed
\* corrective interventions of which only one is in the window: no CRITIQUE
C14_WitnessHorsFenetre ==
    /\ AlertesRendues
    /\ \E e \in DOMAIN equipements :
          /\ Cardinality({n \in TermineesDuRecord(e) :
                            interventions[n].type_intervention = "corrective"}) = 2
          /\ Cardinality(PannesDansFenetre(e)) = 1
    /\ \A k \in DOMAIN res.val : res.val[k].niveau # "CRITIQUE"

\* the alerts of level niveau of the list, in the order of the list
DeNiveau(alertes, niveau) == SelectSeq(alertes, LAMBDA a : a.niveau = niveau)

\* the list alertes had before the sort, for the store and the reference
\* time of the call
Generees == alertes_generees(EquipementDAO_get_all, interventions, res.arg.date_reference)

\* the rank of level niveau in CRITIQUE, ATTENTION, INFO
RangNiveau(niveau) ==
    IF niveau = "CRITIQUE" THEN 1 ELSE IF niveau = "ATTENTION" THEN 2 ELSE 3

\* C15: the returned list has all CRITIQUE alerts first, then all ATTENTION,
\* then all INFO, every alert having one of these three levels; within one
\* level the alerts are in generation order: the rule-1 alerts first, then
\* the per-equipment alerts in the order the equipment list is read.
C15_Ordre ==
    AlertesRendues =>
        /\ \A k \in DOMAIN res.val : res.val[k].niveau \in {"CRITIQUE", "ATTENTION", "INFO"}
        /\ \A j, k \in DOMAIN res.val :
              j < k => RangNiveau(res.val[j].niveau) <= RangNiveau(res.val[k].niveau)
        /\ \A niveau \in {"CRITIQUE", "ATTENTION", "INFO"} :
              DeNiveau(res.val, niveau) = DeNiveau(Generees, niveau)
        /\ \A j, k \in DOMAIN res.val :
              (j < k /\ res.val[j].niveau = res.val[k].niveau) =>
                  /\ k \in AlertesRegle1 => j \in AlertesRegle1
                  /\ (j \notin AlertesRegle1 /\ k \notin AlertesRegle1) =>
                        NomRang(res.val[j].equipement) <= NomRang(res.val[k].equipement)

\* a list with the three levels was returned in which an ATTENTION alert of
\* rule 1 precedes ATTENTION alerts of two equipment, although CRITIQUE was
\* generated after them
C15_Witness ==
    /\ AlertesRendues
    /\ \E k \in DOMAIN res.val : res.val[k].niveau = "CRITIQUE"
    /\ \E k \in DOMAIN res.val : res.val[k].niveau = "INFO"
    /\ \E j, k \in DOMAIN res.val :
          /\ j < k
          /\ res.val[j].niveau = "ATTENTION" /\ j \in AlertesRegle1
          /\ res.val[k].niveau = "ATTENTION" /\ k \notin AlertesRegle1
    /\ \E j, k \in DOMAIN res.val :
          /\ j \notin AlertesRegle1 /\ k \notin AlertesRegle1
          /\ res.val[j].niveau = res.val[k].niveau
          /\ res.val[j].equipement # res.val[k].equipement
    /\ res.val # Generees

----------------------------------------------------------------------------
(* data_access.py: the aggregate queries the report reads *)

\* SELECT SUM(cout) ... WHERE statut = 'terminee'; the total or 0.0 when the
\* sum is NULL or zero
StatistiquesDAO_get_cout_total_maintenance ==
    LET rows == SelectSeq(interventions, LAMBDA i : i.statut = "terminee")
    IN  SumSeq([n \in DOMAIN rows |-> rows[n].cout])

\* SELECT COUNT(*) FROM interventions
StatistiquesDAO_get_nombre_interventions == Len(interventions)

\* SELECT AVG(duree_minutes) ... WHERE statut = 'terminee', rounded to
\* hundredths; 0.0 when there is no row
StatistiquesDAO_get_duree_moyenne_intervention ==
    LET rows == SelectSeq(interventions, LAMBDA i : i.statut = "terminee")
        total == SumSeq([n \in DOMAIN rows |-> rows[n].duree_minutes])
    IN  IF rows = <<>> \/ total = 0 THEN 0 ELSE RoundHalfEven(total, Len(rows), 100)

\* one row per equipment (GROUP BY e.id, in id order) with the count and the
\* sums of its interventions of any status (LEFT JOIN interventions)
lignes_sollicitation ==
    [k \in DOMAIN equipements |->
        LET de == SelectSeq(interventions,
                            LAMBDA i : i.equipement_id = equipements[k].id)
        IN  [id |-> equipements[k].id, nom |-> equipements[k].nom,
             type |-> equipements[k].type,
             nombre_interventions |-> Len(de),
             cout_total |-> SumSeq([n \in DOMAIN de |-> de[n].cout]),
             duree_totale |-> SumSeq([n \in DOMAIN de |-> de[n].duree_minutes])]]

\* HAVING COUNT(i.id) > 0
AuMoinsUne_sans_having(lignes) == lignes
AuMoinsUne(lignes) == SelectSeq(lignes, LAMBDA l : l.nombre_interventions > 0)

\* LIMIT ?: the first limit rows, every row when limit is negative
Limiter(rows, limit) ==
    IF limit < 0 THEN rows ELSE SubSeq(rows, 1, Min(limit, Len(rows)))

\* get_equipements_plus_sollicites: ORDER BY nombre_interventions DESC, rows
\* of equal count staying in group order, LIMIT limit
IndicateursDAO_get_equipements_plus_sollicites(limit) ==
    LET avec == AuMoinsUne(lignes_sollicitation)
        tri == SortedBy(avec, [n \in DOMAIN avec |-> -avec[n].nombre_interventions])
    IN  Limiter(tri, limit)

\* MaintenanceService.get_equipements_plus_sollicites (lines 48-51)
get_equipements_plus_sollicites(limit) ==
    RetourDe("get_equipements_plus_sollicites", [limit |-> limit],
             IndicateursDAO_get_equipements_plus_sollicites(limit))

Appel_get_equipements_plus_sollicites(limit) ==
    /\ res' = get_equipements_plus_sollicites(limit)
    /\ UNCHANGED <<equipements, techniciens, interventions, pieces, pieces_utilisees, utilisateurs, app, index_date, now>>

----------------------------------------------------------------------------
(* SpecTop: fleets of one to MaxEquip equipment, a store that may hold a
   planned intervention, interventions entered through the form, the most
   serviced equipment queried *)

InitTop ==
    /\ \E n \in 1..MaxEquip :
         /\ equipements = [i \in 1..n |-> EquipementAlertes(i)]
         /\ interventions \in
              {<<>>} \cup {<<Planifiee(1, e, [type_intervention |-> "preventive",
                                             date_intervention |-> DatePrevueB])>> :
                              e \in 1..n}
    /\ techniciens = TechniciensDepart
    /\ pieces = PiecesDepart
    /\ pieces_utilisees = <<>>
    /\ utilisateurs = UtilisateursDepart
    /\ app = SessionDepart
    /\ index_date = FALSE
    /\ now = Now0
    /\ res = ResDepart

LimitesTop == {0, 1, 2, 5}

NextTop ==
    \/ \E e \in DOMAIN equipements :
          show_add_intervention(Nombre(e), Nombre(1), "corrective", DateA, Nombre(60), Nombre(100))
    \/ \E limit \in LimitesTop : Appel_get_equipements_plus_sollicites(limit)

SpecTop == InitTop /\ [][NextTop]_vars

\* the number of interventions, of any status, of the equipment record eq_id
NbInterventionsDe(eq_id) ==
    Cardinality({n \in DOMAIN interventions : interventions[n].equipement_id = eq_id})

TopRendu == res.op = "get_equipements_plus_sollicites" /\ res.exc = ""

C17_WitnessZero ==
    /\ TopRendu
    /\ res.arg.limit = 5
    /\ Len(res.val) >= 1
    /\ \E e \in DOMAIN equipements : NbInterventionsDe(equipements[e].id) = 0

----------------------------------------------------------------------------
(* The other aggregate queries, the advanced KPIs and the composite report *)

\* the rank of a type_intervention text in the order SQLite sorts text
TypeRang(t) ==
    CASE t = "corrective" -> 1
      [] t = "installation" -> 2
      [] t = "mise_a_jour" -> 3
      [] t = "preventive" -> 4
      [] OTHER -> 5

\* get_frequence_interventions_par_type: one row per type of completed
\* intervention (GROUP BY type_intervention), ORDER BY nombre DESC, rows of
\* equal count staying in group order
IndicateursDAO_get_frequence_interventions_par_type ==
    LET terminees == SelectSeq(interventions, LAMBDA i : i.statut = "terminee")
        de(t) == SelectSeq(terminees, LAMBDA i : i.type_intervention = t)
        types == {terminees[n].type_intervention : n \in DOMAIN terminees}
        ligne(t) ==
            [type_intervention |-> t, nombre |-> Len(de(t)),
             cout_total |-> SumSeq([n \in DOMAIN de(t) |-> de(t)[n].cout]),
             cout_moyen |-> RoundHalfEven(SumSeq([n \in DOMAIN de(t) |-> de(t)[n].cout]),
                                          Len(de(t)), 100),
             duree_moyenne |-> RoundHalfEven(SumSeq([n \in DOMAIN de(t) |-> de(t)[n].duree_minutes]),
                                             Len(de(t)), 100)]
        RECURSIVE ParType(_)
        ParType(S) ==
            IF S = {} THEN <<>>
            ELSE LET t == CHOOSE x \in S : \A y \in S : TypeRang(x) <= TypeRang(y)
                 IN  <<ligne(t)>> \o ParType(S \ {t})
        groupes == ParType(types)
    IN  SortedBy(groupes, [n \in DOMAIN groupes |-> -groupes[n].nombre])

\* get_interventions_par_mois(annee): one row per month of annee that has
\* completed interventions, ORDER BY mois
IndicateursDAO_get_interventions_par_mois(annee) ==
    LET rows == SelectSeq(interventions,
                          LAMBDA i : /\ i.statut = "terminee"
                                     /\ DateValide(i.date_intervention)
                                     /\ i.date_intervention[1] = annee)
        de(m) == SelectSeq(rows, LAMBDA i : i.date_intervention[2] = m)
        RECURSIVE ParMois(_)
        ParMois(m) ==
            IF m > 12 THEN <<>>
            ELSE (IF de(m) = <<>> THEN <<>>
                  ELSE <<[mois |-> m, nombre_interventions |-> Len(de(m)),
                          cout_total |-> SumSeq([n \in DOMAIN de(m) |-> de(m)[n].cout]),
                          duree_totale |-> SumSeq([n \in DOMAIN de(m) |-> de(m)[n].duree_minutes])]>>)
                 \o ParMois(m + 1)
    IN  ParMois(1)

\* get_performance_techniciens: one row per technician with the aggregates
\* of its completed interventions, ORDER BY nombre_interventions DESC
IndicateursDAO_get_performance_techniciens ==
    LET de(t) == SelectSeq(interventions, LAMBDA i : /\ i.technicien_id = t.id
                                                     /\ i.statut = "terminee")
        lignes == [k \in DOMAIN techniciens |->
                     [id |-> techniciens[k].id,
                      technicien |-> <<techniciens[k].nom, techniciens[k].prenom>>,
                      nombre_interventions |-> Len(de(techniciens[k])),
                      temps_total |-> SumSeq([n \in DOMAIN de(techniciens[k]) |->
                                                de(techniciens[k])[n].duree_minutes]),
                      valeur_interventions |-> SumSeq([n \in DOMAIN de(techniciens[k]) |->
                                                         de(techniciens[k])[n].cout])]]
    IN  SortedBy(lignes, [n \in DOMAIN lignes |-> -lignes[n].nombre_interventions])

\* techniciens_kpi (lines 381-392): duree_moy in tenths, cout_moy in hundredths
techniciens_kpi(perf_techs) ==
    LET actifs == SelectSeq(perf_techs, LAMBDA p : p.nombre_interventions > 0)
    IN  [n \in DOMAIN actifs |->
           [technicien |-> actifs[n].technicien,
            nb |-> actifs[n].nombre_interventions,
            duree_moy |-> RoundHalfEven(actifs[n].temps_total,
                                        actifs[n].nombre_interventions, 10),
            cout_moy |-> RoundHalfEven(actifs[n].valeur_interventions,
                                       actifs[n].nombre_interventions, 100)]]

\* ratio_cp (lines 395-404): the percentages in tenths
ratio_cp(freq) ==
    LET total == SumSeq([n \in DOMAIN freq |-> freq[n].nombre])
        nombreDe(t) == LET l == SelectSeq(freq, LAMBDA f : f.type_intervention = t)
                       IN  IF l = <<>> THEN 0 ELSE l[1].nombre
    IN  [correctif_pct |-> IF total > 0
                           THEN RoundHalfEven(nombreDe("corrective") * 100, total, 10)
                           ELSE 0,
         preventif_pct |-> IF total > 0
                           THEN RoundHalfEven(nombreDe("preventive") * 100, total, 10)
                           ELSE 0,
         total_interventions |-> total]

\* cout_heure_moyen (lines 407-415), in ten-thousandths
cout_heure_moyen(eqs, rows) ==
    LET total_heures == SumSeq([k \in DOMAIN eqs |-> eqs[k].heures_utilisation])
        total_cout == SumSeq([n \in DOMAIN rows |-> rows[n].cout])
    IN  IF total_heures > 0 THEN RoundHalfEven(total_cout, total_heures, 10000) ELSE 0

\* prevision_6_mois (lines 420-426), in thousandths: the six-month base is
\* rounded to hundredths, then multiplied by 1.1
prevision_6_mois(couts_mensuels) ==
    LET somme == SumSeq([n \in DOMAIN couts_mensuels |-> couts_mensuels[n].cout_total])
    IN  IF couts_mensuels = <<>> THEN 0
        ELSE RoundHalfEven(somme * 6, Len(couts_mensuels), 100) * 11

\* calculer_kpis_avances (lines 374-434)
calculer_kpis_avances ==
    LET op == "calculer_kpis_avances"
        perf_techs == IndicateursDAO_get_performance_techniciens
        freq == IndicateursDAO_get_frequence_interventions_par_type
        eqs == EquipementDAO_get_all
        rows == IndicateursDAO_get_all_interventions_raw
        current_year == get_annee_reference
        mtbf == calculer_mtbf
    IN  IF current_year.exc # ""
        THEN EchecLu(op, <<>>, current_year.horloge, current_year.exc)
        ELSE IF mtbf.exc # ""
        THEN EchecLu(op, <<>>, current_year.horloge, mtbf.exc)
        ELSE RetourLu(op, <<>>, current_year.horloge,
                      [techniciens |-> techniciens_kpi(perf_techs),
                       ratio_cp |-> ratio_cp(freq),
                       cout_heure_moyen |-> cout_heure_moyen(eqs, rows),
                       prevision_budget_6mois |->
                           prevision_6_mois(IndicateursDAO_get_interventions_par_mois(current_year.annee)),
                       mtbf |-> mtbf.val])

Appel_calculer_kpis_avances ==
    /\ res' = calculer_kpis_avances
    /\ UNCHANGED <<equipements, techniciens, interventions, pieces, pieces_utilisees, utilisateurs, app, index_date, now>>

\* generer_rapport_synthese (lines 440-457): the entries of the dict are
\* evaluated in the order written, and the first exception ends the call
generer_rapport_synthese ==
    LET op == "generer_rapport_synthese"
        globaux == [cout_total |-> StatistiquesDAO_get_cout_total_maintenance,
                    nombre_interventions |-> StatistiquesDAO_get_nombre_interventions,
                    duree_moyenne_minutes |-> StatistiquesDAO_get_duree_moyenne_intervention]
        taux == calculer_taux_disponibilite_equipements
        tendance == calculer_tendance_couts(SansAnnee)
        top == get_equipements_plus_sollicites(5)
        freq == IndicateursDAO_get_frequence_interventions_par_type
        alertes == generer_alertes_maintenance
    IN  IF tendance.exc # ""
        THEN EchecLu(op, <<>>, tendance.horloge, tendance.exc)
        ELSE IF alertes.exc # ""
        THEN EchecLu(op, <<>>, tendance.horloge \o alertes.horloge, alertes.exc)
        ELSE RetourLu(op, <<>>, tendance.horloge \o alertes.horloge,
                      [indicateurs_globaux |-> globaux,
                       taux_disponibilite |-> taux,
                       tendance_couts |-> tendance.val,
                       top_equipements_sollicites |-> top.val,
                       frequence_par_type |-> freq,
                       alertes |-> alertes.val])

\* the report call, were it to mark the whole fleet out of service
Appel_generer_rapport_synthese_ecrit ==
    /\ res' = generer_rapport_synthese
    /\ equipements' = [k \in DOMAIN equipements |->
                          [equipements[k] EXCEPT !.statut = "hors_service"]]
    /\ UNCHANGED <<techniciens, interventions, pieces, pieces_utilisees, utilisateurs, app, index_date, now>>

Appel_generer_rapport_synthese ==
    /\ res' = generer_rapport_synthese
    /\ UNCHANGED <<equipements, techniciens, interventions, pieces, pieces_utilisees, utilisateurs, app, index_date, now>>

\* MaintenanceService.get_cout_total_maintenance (lines 33-36)
Appel_get_cout_total_maintenance ==
    /\ res' = Retour("get_cout_total_maintenance", StatistiquesDAO_get_cout_total_maintenance)
    /\ UNCHANGED <<equipements, techniciens, interventions, pieces, pieces_utilisees, utilisateurs, app, index_date, now>>

\* PieceDAO.update_stock: UPDATE pieces_detachees SET quantite_stock =
\* quantite_stock + ? WHERE id = ?
PieceDAO_update_stock(piece_id, quantite_change) ==
    /\ pieces' = [k \in DOMAIN pieces |->
                     IF pieces[k].id = piece_id
                     THEN [pieces[k] EXCEPT !.quantite_stock = @ + quantite_change]
                     ELSE pieces[k]]
    /\ res' = Retour("PieceDAO.update_stock", <<>>)
    /\ UNCHANGED <<equipements, techniciens, interventions, pieces_utilisees, utilisateurs, app, index_date, now>>

----------------------------------------------------------------------------
(* SpecAnalyse: fleets of one to MaxEquip equipment whose first equipment
   has run 0 or 2500 hours, two technicians, a store that may hold a planned
   intervention; statuses, stock and interventions are written, the clock
   advances, and every analysis of the service is called *)

InitAnalyse ==
    /\ \E n \in 1..MaxEquip, h \in {0, 2500} :
         /\ equipements = [i \in 1..n |->
                              IF i = 1
                              THEN [EquipementAlertes(1) EXCEPT !.heures_utilisation = h]
                              ELSE EquipementAlertes(i)]
         /\ interventions \in
              {<<>>, <<Planifiee(1, 1, [type_intervention |-> "preventive",
                                        date_intervention |-> DatePrevueA])>>}
    /\ techniciens = TechniciensDepart \o <<[id |-> 2, nom |-> "Durand", prenom |-> "Eve"]>>
    /\ pieces = PiecesDepart
    /\ pieces_utilisees = <<>>
    /\ utilisateurs = UtilisateursDepart
    /\ app = SessionDepart
    /\ index_date = FALSE
    /\ now = Now0
    /\ res = ResDepart

\* the calls of the analyses of MaintenanceService
AppelAnalyse ==
    \/ Appel_calculer_taux_disponibilite_equipements
    \/ Appel_calculer_mtbf
    \/ Appel_calculer_tendance_couts(Annee(2025))
    \/ Appel_calculer_tendance_couts(SansAnnee)
    \/ Appel_calculer_indice_fiabilite_equipements
    \/ Appel_generer_alertes_maintenance
    \/ Appel_calculer_kpis_avances
    \/ Appel_generer_rapport_synthese
    \/ Appel_get_cout_total_maintenance

NextAnalyse ==
    \/ \E s \in {[tech |-> 1, type |-> "corrective", date |-> DatePrevueA, cout |-> 600],
                  [tech |-> 2, type |-> "preventive", date |-> DateA, cout |-> 250]} :
          show_add_intervention(Nombre(1), Nombre(s.tech), s.type, s.date,
                                Nombre(60), Nombre(s.cout))
    \/ EquipementDAO_update_statut(1, "en_panne")
    \/ /\ pieces[1].quantite_stock > 0
       /\ PieceDAO_update_stock(1, -1)
    \/ Tick
    \/ AppelAnalyse

SpecAnalyse == InitAnalyse /\ [][NextAnalyse]_vars

----------------------------------------------------------------------------
(* C16, C18, C20 *)

RapportAppele == res.op = "generer_rapport_synthese"

OpsAnalyse ==
    {"calculer_taux_disponibilite_equipements", "calculer_mtbf",
     "calculer_tendance_couts", "calculer_indice_fiabilite_equipements",
     "generer_alertes_maintenance", "calculer_kpis_avances",
     "generer_rapport_synthese"}

\* C18: a step that ends with the outcome of an analysis, returned or
\* raised, leaves the equipment, technician, intervention and spare-part
\* tables as they were.
C18_Frame == [][res'.op \in OpsAnalyse => store' = store]_vars

\* an analysis has failed on a store that holds interventions and whose
\* stock and statuses were written before
C18_Witness ==
    /\ res.op \in {"calculer_kpis_avances", "generer_rapport_synthese"}
    /\ res.exc = "AttributeError"
    /\ Len(interventions) >= 2
    /\ pieces # PiecesDepart
    /\ \E k \in DOMAIN equipements : equipements[k].statut = "en_panne"

\* an analysis has returned on such a store
C18_WitnessRetour ==
    /\ res.op \in {"generer_alertes_maintenance", "calculer_mtbf",
                   "calculer_indice_fiabilite_equipements"}
    /\ res.exc = ""
    /\ Len(interventions) >= 2
    /\ pieces # PiecesDepart
    /\ \E k \in DOMAIN equipements : equipements[k].statut = "en_panne"

\* the analyses with a time-dependent computation: age, days remaining,
\* days since the last intervention, 180-day window, default year
OpsHorloge ==
    {"calculer_indice_fiabilite_equipements", "generer_alertes_maintenance",
     "calculer_kpis_avances", "generer_rapport_synthese"}

\* C20: an invocation of an analysis with a time-dependent computation,
\* the composite report included, has read the clock exactly once, and the
\* value it read is the clock value at the time of the call.
C20_Claim ==
    res.op \in OpsHorloge => Len(res.horloge) = 1 /\ res.horloge[1].jour <= now.jour

\* the alerts and the reliability index read the clock once
C20_LectureUnique ==
    res.op \in {"calculer_indice_fiabilite_equipements", "generer_alertes_maintenance"}
        => Len(res.horloge) = 1

----------------------------------------------------------------------------
(* C21, C22, C23, C24: the advanced KPIs *)

KpisAppeles == res.op = "calculer_kpis_avances"

\* the completed interventions of technician t
TermineesDuTechnicien(t) ==
    SelectSeq(interventions, LAMBDA i : i.technicien_id = t.id /\ i.statut = "terminee")

\* liste holds one entry for each technician with a completed intervention
\* and no other, each with the count and the average cost (hundredths)
ListeTechniciensConforme(liste) ==
    LET actifs == {k \in DOMAIN techniciens : TermineesDuTechnicien(techniciens[k]) # <<>>}
        de(k) == TermineesDuTechnicien(techniciens[k])
    IN  /\ Len(liste) = Cardinality(actifs)
        /\ \A k \in actifs : \E n \in DOMAIN liste :
              /\ liste[n].technicien = <<techniciens[k].nom, techniciens[k].prenom>>
              /\ liste[n].nb = Len(de(k))
              /\ liste[n].cout_moy =
                    RoundHalfEven(SumSeq([j \in DOMAIN de(k) |-> de(k)[j].cout]), Len(de(k)), 100)

\* C21: a call of calculer_kpis_avances returns a technician list that holds
\* exactly the technicians with at least one completed intervention, each
\* with its count and average cost; technicians without one are left out.
C21_Claim == KpisAppeles => res.exc = "" /\ ListeTechniciensConforme(res.val.techniciens)

\* lines 380-392 on their own compute that list
C21_Partiel ==
    ListeTechniciensConforme(techniciens_kpi(IndicateursDAO_get_performance_techniciens))

NbTerminees(types) ==
    Cardinality({n \in DOMAIN interventions : /\ interventions[n].statut = "terminee"
                                              /\ interventions[n].type_intervention \in types})

\* r holds the corrective and preventive shares (tenths of a percent) of
\* the completed interventions of all kinds, 0 when there are none
RatioConforme(r) ==
    LET total == NbTerminees(TypesIntervention)
        part(t) == IF total = 0 THEN 0 ELSE RoundHalfEven(NbTerminees({t}) * 100, total, 10)
    IN  /\ r.correctif_pct = part("corrective")
        /\ r.preventif_pct = part("preventive")
        /\ NbTerminees({"corrective"}) + NbTerminees({"preventive"}) <= total

\* C22: a call of calculer_kpis_avances returns correctif_pct and
\* preventif_pct as the shares of the completed interventions of all kinds,
\* both 0 when there are none, their sum at most 100 before rounding.
C22_Claim == KpisAppeles => res.exc = "" /\ RatioConforme(res.val.ratio_cp)

\* lines 395-404 on their own compute those shares
C22_Partiel == RatioConforme(ratio_cp(IndicateursDAO_get_frequence_interventions_par_type))

\* completed cost over usage hours in ten-thousandths, 0 without hours
CoutHoraireAttendu ==
    LET T == {n \in DOMAIN interventions : interventions[n].statut = "terminee"}
        cout == SumSet(T, [n \in T |-> interventions[n].cout])
        heures == SumSeq([k \in DOMAIN equipements |-> equipements[k].heures_utilisation])
    IN  IF heures = 0 THEN 0 ELSE RoundHalfEven(cout, heures, 10000)

\* C23: no call ends with a division by zero, and a call of
\* calculer_kpis_avances returns the completed cost per usage hour, 0 when
\* the fleet has no usage hours.
C23_Claim ==
    /\ res.exc # "ZeroDivisionError"
    /\ KpisAppeles => res.exc = "" /\ res.val.cout_heure_moyen = CoutHoraireAttendu

\* lines 407-415 on their own compute that ratio
C23_Partiel ==
    cout_heure_moyen(EquipementDAO_get_all, IndicateursDAO_get_all_interventions_raw)
        = CoutHoraireAttendu

\* average monthly cost of the reference year * 6 * 1.1 rounded to
\* hundredths, written in thousandths; 0 without monthly data
PrevisionAttendue ==
    LET M == MoisAvecDonnees(AnneeParDefaut)
    IN  IF M = {} THEN 0
        ELSE 10 * RoundHalfEven(CoutDesMois(AnneeParDefaut, M) * 66, 10 * Cardinality(M), 100)

\* C24: a call of calculer_kpis_avances returns as forecast the average of
\* the monthly completed-cost totals of the reference year times 6 times
\* 1.1, rounded to 2 decimals, 0 when that year has no monthly data.
C24_Claim == KpisAppeles => res.exc = "" /\ res.val.prevision_budget_6mois = PrevisionAttendue

----------------------------------------------------------------------------
(* db_connection.py and data_access.py: the writes of the stock module.
   A with-block of get_db_cursor starts from the committed tables avant,
   has made them apres when its body ends, and exc is the exception the
   body ended with ("" when it ran to its end). *)

\* the context manager without its except clause
get_db_cursor_sans_rollback(avant, apres, exc) ==
    apres

\* what the database holds after the block: commit, or rollback and re-raise
get_db_cursor(avant, apres, exc) ==
    IF exc = "" THEN apres ELSE avant

\* UPDATE pieces_detachees SET quantite_stock = quantite_stock - ? WHERE id = ?
StockDecremente(table, piece_id, quantite) ==
    [k \in DOMAIN table |->
        IF table[k].id = piece_id
        THEN [table[k] EXCEPT !.quantite_stock = @ - quantite]
        ELSE table[k]]

\* the usage recorded in a block of its own, the stock decremented in the next
PieceUtiliseeDAO_add_piece_to_intervention_deux_blocs(intervention_id, piece_id, quantite, panne) ==
    LET ligne == [intervention_id |-> intervention_id, piece_id |-> piece_id,
                  quantite |-> quantite]
        arg == [intervention_id |-> intervention_id, piece_id |-> piece_id,
                quantite |-> quantite,
                panne |-> [instruction |-> panne.instruction, exc |-> panne.exc]]
    IN  /\ Len(pieces_utilisees) < MaxUsages
        /\ pieces_utilisees' = IF panne.instruction = 1 THEN pieces_utilisees
                               ELSE Append(pieces_utilisees, ligne)
        /\ pieces' = IF panne.instruction = 0
                     THEN StockDecremente(pieces, piece_id, quantite) ELSE pieces
        /\ res' = EchecDe("PieceUtiliseeDAO.add_piece_to_intervention", arg, panne.exc)
        /\ UNCHANGED <<equipements, techniciens, interventions, utilisateurs, app, index_date, now>>

\* add_piece_to_intervention: INSERT then UPDATE in one with-block.  panne
\* is what sqlite3 does during the call: instruction 0 when both statements
\* run, else the statement (1 or 2) that raises exc.
PieceUtiliseeDAO_add_piece_to_intervention(intervention_id, piece_id, quantite, panne) ==
    LET ligne == [intervention_id |-> intervention_id, piece_id |-> piece_id,
                  quantite |-> quantite]
        arg == [intervention_id |-> intervention_id, piece_id |-> piece_id,
                quantite |-> quantite,
                panne |-> [instruction |-> panne.instruction, exc |-> panne.exc]]
        avant == [pieces_utilisees |-> pieces_utilisees, pieces |-> pieces]
        apres1 == [avant EXCEPT !.pieces_utilisees = Append(@, ligne)]
        apres2 == [apres1 EXCEPT !.pieces = StockDecremente(@, piece_id, quantite)]
        apres == IF panne.instruction = 1 THEN avant
                 ELSE IF panne.instruction = 2 THEN apres1 ELSE apres2
        fin == get_db_cursor(avant, apres, panne.exc)
    IN  /\ Len(pieces_utilisees) < MaxUsages
        /\ pieces_utilisees' = fin.pieces_utilisees
        /\ pieces' = fin.pieces
        /\ res' = EchecDe("PieceUtiliseeDAO.add_piece_to_intervention", arg, panne.exc)
        /\ UNCHANGED <<equipements, techniciens, interventions, utilisateurs, app, index_date, now>>

----------------------------------------------------------------------------
(* SpecEcritures: fleets of one to MaxEquip equipment, a store that may hold
   a planned intervention; the form is submitted with valid and invalid
   entries, parts are used and restocked, and sqlite3 may raise at either
   statement of a use *)

InitEcritures ==
    /\ equipements = [i \in 1..MaxEquip |-> EquipementAlertes(i)]
    /\ techniciens = TechniciensDepart
    /\ interventions \in {<<>>, <<InterventionPlanifiee>>}
    /\ pieces = PiecesDepart
    /\ pieces_utilisees = <<>>
    /\ utilisateurs = UtilisateursDepart
    /\ app = SessionDepart
    /\ index_date = FALSE
    /\ now = Now0
    /\ res = ResDepart

NextEcritures ==
    \/ \E s \in {<<Nombre(1), Nombre(1), "corrective", DateA, Nombre(60), Nombre(100)>>,
                  <<Nombre(MaxEquip), Nombre(1), "preventive", DateA, Nombre(60), Nombre(0)>>,
                  <<Annule, Nombre(1), "corrective", DateA, Nombre(60), Nombre(100)>>,
                  <<TexteLibre, Nombre(1), "corrective", DateA, Nombre(60), Nombre(100)>>,
                  <<Nombre(MaxEquip + 1), Nombre(1), "corrective", DateA, Nombre(60), Nombre(100)>>,
                  <<Nombre(1), Nombre(2), "corrective", DateA, Nombre(60), Nombre(100)>>,
                  <<Nombre(1), Nombre(1), "reparation", DateA, Nombre(60), Nombre(100)>>,
                  <<Nombre(1), Nombre(1), "corrective", DateInvalide, Nombre(60), Nombre(100)>>,
                  <<Nombre(1), Nombre(1), "corrective", DateA, Nombre(0), Nombre(100)>>,
                  <<Nombre(1), Nombre(1), "corrective", DateA, Nombre(60), Nombre(-1)>>,
                  <<Nombre(1), Nombre(1), "corrective", DateA, Nombre(60), TexteNaN>>} :
          show_add_intervention(s[1], s[2], s[3], s[4], s[5], s[6])
    \/ \E u \in {<<1, 1>>, <<1, 2>>, <<2, 1>>},
          panne \in {[instruction |-> 0, exc |-> ""],
                     [instruction |-> 1, exc |-> "IntegrityError"],
                     [instruction |-> 2, exc |-> "OperationalError"]} :
          PieceUtiliseeDAO_add_piece_to_intervention(1, u[1], u[2], panne)
    \/ /\ pieces[1].quantite_stock < PiecesDepart[1].quantite_stock
       /\ PieceDAO_update_stock(1, 1)

SpecEcritures == InitEcritures /\ [][NextEcritures]_vars

----------------------------------------------------------------------------
(* C25, C26, C27 *)

NbLignes(table, ident) == Cardinality({k \in DOMAIN table : table[k].id = ident})

\* row names one equipment and one technician of the store
ReferencesValides(row) ==
    /\ NbLignes(equipements, row.equipement_id) = 1
    /\ NbLignes(techniciens, row.technicien_id) = 1

\* the form has ended: with its success message it has appended one row
\* that names an equipment and a technician of the store and has an
\* admitted kind, a date that parses, a positive duration and a cost that
\* is not negative; with any other message the table is as it was
EffetFormulaire ==
    res'.op = "show_add_intervention" =>
        IF res'.val = "Intervention ajoutee avec succes."
        THEN /\ Len(interventions') = Len(interventions) + 1
             /\ SubSeq(interventions', 1, Len(interventions)) = interventions
             /\ LET row == interventions'[Len(interventions')]
                IN  /\ ReferencesValides(row)
                    /\ row.type_intervention \in TypesIntervention
                    /\ DateValide(row.date_intervention)
                    /\ row.duree_minutes > 0
                    /\ row.cout >= 0
        ELSE interventions' = interventions

C25_WitnessNaN ==
    /\ \E n \in DOMAIN interventions : interventions[n].statut = "terminee"
    /\ res.op = "show_add_intervention"
    /\ res.val = issue_cout_nan

UsageTermine == res.op = "PieceUtiliseeDAO.add_piece_to_intervention"

\* a call of add_piece_to_intervention has ended: when no statement raised
\* the usage row and the decremented stock are in the tables, when one did
\* the tables are as before the block and the call ends with that exception
EffetBloc ==
    UsageTermine' =>
        LET a == res'.arg
            stock(table, k) == table[k].quantite_stock
        IN  IF a.panne.instruction = 0
            THEN /\ res'.exc = ""
                 /\ pieces_utilisees' =
                       Append(pieces_utilisees,
                              [intervention_id |-> a.intervention_id,
                               piece_id |-> a.piece_id, quantite |-> a.quantite])
                 /\ \A k \in DOMAIN pieces :
                       stock(pieces', k) = stock(pieces, k) -
                          (IF pieces[k].id = a.piece_id THEN a.quantite ELSE 0)
            ELSE /\ res'.exc = a.panne.exc
                 /\ pieces_utilisees' = pieces_utilisees
                 /\ pieces' = pieces

\* C26: a with-block of get_db_cursor whose body ends without exception
\* leaves its changes committed; one whose body raises leaves the tables as
\* they were before the block and passes the same exception to the caller.
C26_Transaction == [][EffetBloc]_vars

\* the second statement raised after an earlier use was committed
C26_Witness ==
    /\ UsageTermine
    /\ res.arg.panne.instruction = 2
    /\ res.exc = "OperationalError"
    /\ Len(pieces_utilisees) = 1

\* a use was committed
C26_WitnessCommit == UsageTermine /\ res.exc = "" /\ Len(pieces_utilisees) = MaxUsages

\* stock of the part of row k plus the quantities of its usage rows
Solde(table, usages, k) ==
    LET U == {n \in DOMAIN usages : usages[n].piece_id = table[k].id}
    IN  table[k].quantite_stock + SumSet(U, [n \in U |-> usages[n].quantite])

----------------------------------------------------------------------------
(* C28 *)

\* C28: in one result no equipment gets both the stale-maintenance alert
\* and the failure-cluster alert.  Alerts carry the equipment name, so per
\* name: the alerts of the two wordings together are at most as many as the
\* records of that name with a completed intervention, and each record
\* whose latest completed intervention is more than 180 days old has no
\* corrective intervention in the window.
C28_Exclusives ==
    AlertesRendues =>
        /\ \A e \in DOMAIN equipements :
              LET nom == equipements[e].nom
              IN  Cardinality(AlertesDe(nom, "sans maintenance"))
                    + Cardinality(AlertesDe(nom, "pannes"))
                  <= Cardinality({k \in RecordsNommes(nom) : TermineesDuRecord(k) # {}})
        /\ \A e \in DOMAIN equipements :
              (/\ Cardinality(RecordsNommes(equipements[e].nom)) = 1
               /\ AlertesDe(equipements[e].nom, "sans maintenance") # {})
                 => PannesDansFenetre(e) = {}

\* one equipment is stale with a corrective intervention 181 days old, and
\* another has its failure cluster, in the same result
C28_Witness ==
    /\ AlertesRendues
    /\ \E e \in DOMAIN equipements :
          /\ AlertesDe(equipements[e].nom, "sans maintenance") # {}
          /\ AlertesDe(equipements[e].nom, "pannes") = {}
          /\ \E n \in TermineesDuRecord(e) :
                interventions[n].type_intervention = "corrective"
    /\ \E e \in DOMAIN equipements : AlertesDe(equipements[e].nom, "pannes") # {}

----------------------------------------------------------------------------
(* C29 *)

\* the index calculer_indice_fiabilite_equipements gives the equipment at k
\* when the interventions table is inters
IndiceAvec(inters, k) ==
    EntreeFiabilite(equipements[k], interventions_raw_de(inters), now).indice_fiabilite

\* C29: the clock and the acquisition dates being the same, one more
\* completed intervention of non-negative cost on an equipment never raises
\* the index of that equipment and leaves the index of every other one as
\* it was.
C29_Monotone ==
    [][(/\ Len(interventions') = Len(interventions) + 1
        /\ equipements' = equipements /\ now' = now) =>
          LET row == interventions'[Len(interventions')]
          IN  (row.statut = "terminee" /\ row.cout >= 0) =>
                \A k \in DOMAIN equipements :
                    IF equipements[k].id = row.equipement_id
                    THEN IndiceAvec(interventions', k) <= IndiceAvec(interventions, k)
                    ELSE IndiceAvec(interventions', k) = IndiceAvec(interventions, k)]_vars

\* the index was computed for a fleet in which one equipment has fallen to
\* 0 under its interventions and another, of the same name, has none
C29_Witness ==
    /\ FiabRendue /\ res.exc = ""
    /\ \E a, b \in DOMAIN res.val :
          /\ res.val[a].nom = res.val[b].nom
          /\ res.val[a].nb_interventions = MaxInter /\ res.val[a].indice_fiabilite = 0
          /\ res.val[b].nb_interventions = 0 /\ res.val[b].indice_fiabilite >= 90

----------------------------------------------------------------------------
(* SpecSession: the window is opened on a store of zero to two accounts of
   distinct usernames; the login dialog is cancelled or applied once
   (_authenticate leaves its loop at the first dialog without result), then
   the buttons of the sidebar are clicked *)

\* MaintenanceApp.__init__ with the dialog cancelled (applique FALSE) or
\* applied with username and password: _authenticate, then _create_widgets
\* when a user was returned
MaintenanceApp_init(applique, username, password) ==
    /\ ~app.demarree
    /\ LET result == IF applique THEN AuthService_login(username, password) ELSE <<>>
       IN  /\ app' = AppApres(result)
           /\ res' = RetourDe("MaintenanceApp",
                              [applique |-> applique, username |-> username,
                               password |-> password], result)
    /\ UNCHANGED <<equipements, techniciens, interventions, pieces, pieces_utilisees, utilisateurs, index_date, now>>

\* a click on the sidebar button of that label runs its command
Clic(label) ==
    /\ label \in Range(app.menu)
    /\ \/ label = "Indice fiabilite" /\ Appel_calculer_indice_fiabilite_equipements
       \/ label = "Rapport complet" /\ Appel_generer_rapport_synthese

InitSession ==
    /\ equipements = [i \in 1..MaxEquip |-> EquipementAlertes(i)]
    /\ techniciens = TechniciensDepart
    /\ interventions = <<>>
    /\ pieces = PiecesDepart
    /\ pieces_utilisees = <<>>
    /\ utilisateurs \in
         UNION {{[k \in DOMAIN noms |-> [id |-> k, username |-> noms[k],
                                  password_hash |-> c[k].password_hash,
                                  role |-> c[k].role]]
                   : c \in [DOMAIN noms -> [password_hash : {"admin123", "tech"},
                                     role : {"admin", "technicien"}]]}
                : noms \in {<<>>, <<"admin">>, <<"marie">>, <<"admin", "marie">>,
                            <<"marie", "admin">>}}
    /\ app = AppNonDemarree
    /\ index_date = FALSE
    /\ now = Now0
    /\ res = ResDepart

NextSession ==
    \/ MaintenanceApp_init(FALSE, "", "")
    \/ \E username \in {"admin", "marie", "inconnu"}, password \in {"admin123", "tech", ""} :
          MaintenanceApp_init(TRUE, username, password)
    \/ \E label \in Range(menu_items) : Clic(label)

SpecSession == InitSession /\ [][NextSession]_vars

(* C30 *)

\* the accounts of that username and stored password
ComptesConformes(username, password) ==
    {k \in DOMAIN utilisateurs : /\ utilisateurs[k].username = username
                                 /\ utilisateurs[k].password_hash = password}

\* C30: login returns the account iff one bears the username and its stored
\* password equals the one supplied, else None; the sidebar exists only once
\* login has returned a user, never after a cancelled or failed dialog; a
\* user of role technicien has none of the four financial entries, and no
\* indicator is computed from a button that was not created.
C30_Acces ==
    /\ (res.op = "MaintenanceApp" /\ res.arg.applique) =>
          IF ComptesConformes(res.arg.username, res.arg.password) = {}
          THEN res.val = <<>>
          ELSE \E k \in ComptesConformes(res.arg.username, res.arg.password) :
                  res.val = <<utilisateurs[k]>>
    /\ (res.op = "MaintenanceApp" /\ ~res.arg.applique) => res.val = <<>>
    /\ res.op = "MaintenanceApp" => app.current_user = res.val
    /\ app.current_user = <<>> => app.menu = <<>>
    /\ app.menu # <<>> =>
          /\ app.demarree
          /\ app.current_user # <<>>
          /\ app.current_user[1] \in Range(utilisateurs)
    /\ (app.current_user # <<>> /\ app.current_user[1].role = "technicien") =>
          Range(app.menu) \cap {"Cout par equipement", "Tendance des couts",
                                "Performance techniciens", "Rapport complet"} = {}
    /\ res.op \in {"calculer_indice_fiabilite_equipements", "generer_rapport_synthese"} =>
          app.current_user # <<>>
    /\ res.op = "generer_rapport_synthese" => app.current_user[1].role # "technicien"

\* a technician has logged in and has the twelve other entries
C30_Witness ==
    /\ res.op = "MaintenanceApp" /\ res.arg.applique
    /\ app.current_user # <<>> /\ app.current_user[1].role = "technicien"
    /\ Len(app.menu) = 12
    /\ "Indice fiabilite" \in Range(app.menu)

\* the dialog was applied with the username of an account and another
\* password: the window is open and has no menu
C30_WitnessEchec ==
    /\ res.op = "MaintenanceApp" /\ res.arg.applique
    /\ \E k \in DOMAIN utilisateurs : utilisateurs[k].username = res.arg.username
    /\ app.demarree /\ app.current_user = <<>> /\ app.menu = <<>>

\* the dialog was cancelled
C30_WitnessAnnule ==
    /\ res.op = "MaintenanceApp" /\ ~res.arg.applique
    /\ app.demarree /\ app.menu = <<>>

============================================================================
